---- MODULE Spec2Model ----
(***************************************************************************)
(* A model of spotify_playlist_generator.py: the HTTP client wrapper       *)
(* (make_spotify_request), the state store (load_state, save_state), the   *)
(* user-authorization flow (get_user_auth_token with its callback listener *)
(* and the state file), the catalog resolver (find_artist,                 *)
(* get_artist_albums, get_album_tracks, get_artist_tracks), main's loop    *)
(* over the requested artists, its de-duplication, sort_tracks, main's     *)
(* dry-run and create-mode branches, and add_tracks_to_playlist.           *)
(***************************************************************************)
EXTENDS Integers, Sequences, FiniteSets, TLC

VARIABLES
    \* ---- make_spotify_request (one call) ----
    method,         \* the method argument
    max_retries,    \* the max_retries argument
    json_error_is_request_exception,
                    \* whether the installed requests raises its own
                    \* RequestException subclass from response.json()
    retries,        \* the local retry counter
    hist,           \* one entry per loop iteration: the response and the sleep
    hpc,            \* "loop" | "returned" | "raised"
    result,         \* the value returned (None until then)
    \* ---- the state file, the clock, the process ----
    file,           \* the JSON document at STATE_FILE (None: no file)
    now,            \* time.time(), in seconds
    runs,           \* processes started so far
    pc,             \* where main's create-mode path stands
    callback_host,  \* the hostname of --callback_url
    AUTH_CODE,              \* the global of line 23
    AUTH_CODE_RECEIVED,     \* the global event of line 24 (its flag)
    active_servers, \* callback listeners serving requests
    callbacks,      \* requests the listener has handled in this process
    callback_status,\* the status the listener last answered with (0: none)
    \* ---- locals of get_user_auth_token ----
    state,          \* the loaded state document, as updated by the call
    current_time,   \* time.time() at the start of the call
    server,         \* what start_callback_server returned
    wait_start,     \* when AUTH_CODE_RECEIVED.wait was entered
    auth_code,
    token_data,     \* the last token-endpoint payload (None: rejected)
    ret,            \* the value get_user_auth_token returned
    \* ---- what was observed (history) ----
    log,            \* the requests and interactive steps of this process
    loaded,         \* the state document as load_state returned it
    file_at_start,  \* the state file when the process started
    received_at_wait_end,   \* the event's flag when the wait returned
    prev_run,       \* how the previous process obtained its user token
    \* ---- find_artist (calls made one after the other) ----
    artist_name,    \* the artist_name argument
    fa_state,       \* the local "state"
    artists,        \* the local "artists": the items of the search
    fa_pc,          \* "idle" | "lookup" | "search" | "choose" | "returned"
    fa_ret,         \* the value find_artist returned
    fa_log,         \* the requests, prompts and saves of this call
    fa_calls,       \* calls made so far
    fa_file_at_call,\* the state file when this call started (history)
    resolved,       \* name -> the ID the last search for it resolved it to
                    \* (history; no entry when that search returned no artist)
    resolved_at_call,   \* "resolved" when this call started (history)
    \* ---- get_artist_albums / get_album_tracks (one call) ----
    pg_kind,        \* "albums" (get_artist_albums) | "tracks" (get_album_tracks)
    pg_id,          \* the artist_id / album_id argument
    pg_offset,      \* the local "offset"
    pg_items,       \* the local "albums" / "tracks"
    pg_requests,    \* the requests made, in order (history)
    pg_pages,       \* what make_spotify_request returned for each (history)
    pg_pc,          \* "loop" | "returned"
    \* ---- get_artist_tracks (one call) ----
    artist_id,      \* the artist_id argument
    albums,         \* what get_artist_albums returned
    primary_albums,
    album_tracks,   \* what get_album_tracks returned per primary album (history)
    all_tracks,     \* the local "all_tracks"
    gt_pc,          \* "albums" | "tracks" | "returned"
    \* ---- main's merge, de-duplication and sort ----
    merged_tracks,  \* main's all_tracks (line 587)
    unique_tracks,
    sort_method,    \* args.sort
    sort_order,     \* args.order
    details,        \* what get_track_details returned per track
    sorted_tracks,
    as_pc,          \* "merged" | "unique" | "sorted" | "creating" | "ended"
    \* ---- add_tracks_to_playlist (one call) ----
    track_uris,     \* the track_uris argument
    ab_i,           \* the loop variable i
    ab_requests,    \* the requests made, in order (history)
    ab_results,     \* what make_spotify_request returned for each (history)
    ab_ret,         \* the value returned (FALSE until then)
    ab_pc,          \* "loop" | "returned"
    \* ---- main ----
    dryrun,         \* args.dryrun
    \* ---- load_state / save_state on the bytes of the state file ----
    disk,           \* STATE_FILE on disk: whether it exists, and its lines
    saved,          \* the document of the last save_state that wrote it whole
    ls_ret,         \* what the last load_state returned (<<>> before any)
    ls_opened,      \* whether that load_state could open the file
    st_pc,          \* "idle" | "loaded" | "saved"
    \* ---- main's loop over the requested artists ----
    artist_list,    \* the names given with --artists, split and stripped
    cl_i,           \* names handled so far
    cl_found,       \* per name handled: what find_artist returned
    cl_tracks,      \* per name handled: what get_artist_tracks returned
    artist_names,   \* main's local of line 579
    main_tracks,    \* main's local all_tracks of line 578
    cl_pc           \* "loop" | "collected" | "ended"

httpVars == <<method, max_retries, json_error_is_request_exception,
              retries, hist, hpc, result>>

envVars_but_pc == <<file, now, runs, callback_host, AUTH_CODE,
                    AUTH_CODE_RECEIVED, active_servers, callbacks,
                    callback_status>>

envVars == <<envVars_but_pc, pc>>

callVars == <<state, current_time, server, wait_start, auth_code,
              token_data, ret>>

histVars == <<log, loaded, file_at_start, received_at_wait_end, prev_run>>

authVars == <<envVars, callVars, histVars>>

\* the auth variables but the state file
authVars_but_file == <<now, runs, callback_host, AUTH_CODE, AUTH_CODE_RECEIVED,
                       active_servers, callbacks, callback_status, pc,
                       callVars, histVars>>

resolverVars == <<artist_name, fa_state, artists, fa_pc, fa_ret, fa_log,
                  fa_calls, fa_file_at_call, resolved, resolved_at_call>>

pageVars == <<pg_kind, pg_id, pg_offset, pg_items, pg_requests, pg_pages,
              pg_pc>>

catalogVars == <<artist_id, albums, primary_albums, album_tracks, all_tracks,
                 gt_pc>>

assembleVars == <<merged_tracks, unique_tracks, sort_method, sort_order,
                  details, sorted_tracks, as_pc>>

batchVars == <<track_uris, ab_i, ab_requests, ab_results, ab_ret, ab_pc>>

storeVars == <<disk, saved, ls_ret, ls_opened, st_pc>>

collectVars == <<artist_list, cl_i, cl_found, cl_tracks, artist_names,
                 main_tracks, cl_pc>>

\* what each part of the program leaves alone
nonHttpVars == <<authVars, resolverVars, pageVars, catalogVars, assembleVars,
                 batchVars, dryrun,
    storeVars, collectVars>>

nonAuthVars == <<httpVars, resolverVars, pageVars, catalogVars, assembleVars,
                 batchVars, dryrun,
    storeVars, collectVars>>

nonResolverVars == <<httpVars, authVars_but_file, pageVars, catalogVars,
                     assembleVars, batchVars, dryrun,
    storeVars, collectVars>>

nonPageVars == <<httpVars, authVars, resolverVars, catalogVars, assembleVars,
                 batchVars, dryrun,
    storeVars, collectVars>>

nonCatalogVars == <<httpVars, authVars, resolverVars, pageVars, assembleVars,
                    batchVars, dryrun,
    storeVars, collectVars>>

nonAssembleVars == <<httpVars, authVars, resolverVars, pageVars, catalogVars,
                     batchVars, dryrun,
    storeVars, collectVars>>

nonBatchVars == <<httpVars, authVars, resolverVars, pageVars, catalogVars,
                  assembleVars, dryrun,
    storeVars, collectVars>>

nonStoreVars == <<httpVars, authVars, resolverVars, pageVars, catalogVars,
                  assembleVars, batchVars, dryrun, collectVars>>

nonCollectVars == <<httpVars, authVars_but_file, resolverVars, pageVars,
                    catalogVars, assembleVars, batchVars, dryrun, storeVars>>

vars == <<httpVars, authVars, resolverVars, pageVars, catalogVars,
          assembleVars, batchVars, dryrun,
    storeVars, collectVars>>

----------------------------------------------------------------------------
\* Bounds of the model

\* max_retries arguments explored: 0..MaxRetries and the default
MaxRetries == 2

\* processes (runs of main) explored one after the other
MaxRuns == 2

\* the clock stops here
MaxTime == 480

\* requests the callback listener handles in one process
MaxCallbacks == 2

\* find_artist calls explored one after the other
MaxCalls == 3

\* artists a search answers with
MaxResults == 2

\* lines the operator enters at one prompt that are neither a listed number
\* nor a skip
MaxInvalid == 2

\* requests of one paginated walk
MaxPages == 3

\* albums get_artist_albums returns
MaxAlbums == 2

\* tracks get_album_tracks returns for one album
MaxAlbumTracks == 2

\* tracks main has collected before it removes the duplicates
MaxMerged == 3

\* URIs given to add_tracks_to_playlist
MaxUris == 201

\* names given with --artists
MaxArtists == 3

----------------------------------------------------------------------------
\* Values

\* Python's None
None == [none |-> TRUE]

\* Python's {}
EmptyDict == [k \in {} |-> TRUE]

\* a Python string
Str(s) == [str |-> s]

\* "not v" for a value that is None, a dict or a string
Falsy(v) == v = None \/ DOMAIN v = {} \/ v = Str("")

\* d[k] = v on a dict
Put(d, k, v) == [x \in DOMAIN d \cup {k} |-> IF x = k THEN v ELSE d[x]]

\* strings that the program orders are sequences of characters; the code
\* points of the characters used
CodePoint ==
    [c \in {"-", "0", "1", "2", "5", "A", "B", "a", "b"} |->
        CASE c = "-" -> 45
          [] c = "0" -> 48
          [] c = "1" -> 49
          [] c = "2" -> 50
          [] c = "5" -> 53
          [] c = "A" -> 65
          [] c = "B" -> 66
          [] c = "a" -> 97
          [] c = "b" -> 98]

\* release dates as the API gives them, to the year or to the day
Date2010 == <<"2", "0", "1", "0">>
Date2010Jan == <<"2", "0", "1", "0", "-", "0", "1", "-", "0", "1">>
Date2015 == <<"2", "0", "1", "5">>

----------------------------------------------------------------------------
\* make_spotify_request

DefaultMaxRetries == 5
DefaultRetryAfter == 1
NetworkRetrySleep == 2

Methods == {"GET", "POST", "PUT", "DELETE"}

\* requests.get / requests.post / requests.put are called for these only
SupportedMethod(m) == m \in {"GET", "POST", "PUT"}

Digits == <<"0", "1", "2", "3", "4", "5", "6", "7", "8", "9">>

IsDigit(c) == \E i \in 1..10 : Digits[i] = c

DigitValue(c) == (CHOOSE i \in 1..10 : Digits[i] = c) - 1

\* int(s) for a header string s (a sequence of characters): the decimal value
\* of a non-empty digit string; anything else raises ValueError
IntParses(s) == Len(s) > 0 /\ \A i \in 1..Len(s) : IsDigit(s[i])

RECURSIVE IntOf(_)
IntOf(s) ==
    IF Len(s) = 0 THEN 0
    ELSE 10 * IntOf(SubSeq(s, 1, Len(s) - 1)) + DigitValue(s[Len(s)])

\* Retry-After header values a server may send: seconds, or an HTTP-date
RetryAfterValues == { <<"3">>, <<"1", "0">>, <<"W", "e", "d">> }

HeaderSets ==
    {EmptyDict} \cup { [h \in {"Retry-After"} |-> v] : v \in RetryAfterValues }

\* response.text: empty, two JSON documents, and a body that is not JSON
Texts == {"", "{\"a\":1}", "{\"b\":2}", "<html>"}

JsonParses(t) == t \in {"{\"a\":1}", "{\"b\":2}"}

\* response.json() of a body that parses
JsonOf(t) == IF t = "{\"a\":1}" THEN [a |-> 1] ELSE [b |-> 2]

NetworkError ==
    [kind |-> "neterr", status |-> 0, headers |-> EmptyDict, text |-> ""]

Responses ==
    [kind : {"response"}, status : {200}, headers : {EmptyDict}, text : Texts]
    \cup [kind : {"response"}, status : {400, 503}, headers : {EmptyDict},
          text : {"<html>"}]
    \cup [kind : {"response"}, status : {429}, headers : HeaderSets,
          text : {""}]

\* int(response.headers.get('Retry-After', 1)) parses
RetryAfterParses(r) ==
    "Retry-After" \in DOMAIN r.headers => IntParses(r.headers["Retry-After"])

\* mutant: the header is ignored
RetryAfterOf_IgnoresHeader(r) == DefaultRetryAfter

\* int(response.headers.get('Retry-After', 1))
RetryAfterOf(r) ==
    IF "Retry-After" \in DOMAIN r.headers
    THEN IntOf(r.headers["Retry-After"])
    ELSE DefaultRetryAfter

IsRateLimit(r) == r.status = 429

\* mutant: 400 itself is not an error
IsErrorStatus_Above400(r) == r.status > 400

IsErrorStatus(r) == r.status >= 400

\* the loop condition
LoopCondition(n, max) == n <= max

\* the except handler's retry condition
MayRetryNetwork(n, max) == n < max

\* the time.sleep calls of an iteration: none, or one of d seconds
NoSleep == <<>>

Slept(d) == <<d>>

Iteration(r, slept) == [resp |-> r, slept |-> slept]

\* no earlier process obtained a user token
NoRun == [grant |-> "none", token |-> None, expires_at |-> 0]

\* no process has run: no state file, the globals as lines 23-24 set them
InitAuthFrom(f) ==
    /\ file = f
    /\ now = 0
    /\ runs = 0
    /\ pc = "idle"
    /\ callback_host = "localhost"
    /\ AUTH_CODE = None
    /\ AUTH_CODE_RECEIVED = FALSE
    /\ active_servers = 0
    /\ callbacks = 0
    /\ callback_status = 0
    /\ state = None
    /\ current_time = 0
    /\ server = None
    /\ wait_start = 0
    /\ auth_code = None
    /\ token_data = None
    /\ ret = None
    /\ log = <<>>
    /\ loaded = None
    /\ file_at_start = None
    /\ received_at_wait_end = FALSE
    /\ prev_run = NoRun

\* no state file yet
InitAuth == InitAuthFrom(None)

\* no call of make_spotify_request is followed
IdleHttp ==
    /\ method = "GET"
    /\ max_retries = DefaultMaxRetries
    /\ json_error_is_request_exception = TRUE
    /\ retries = 0
    /\ hist = <<>>
    /\ hpc = "loop"
    /\ result = None

\* find_artist has not been called
IdleResolver ==
    /\ artist_name = ""
    /\ fa_state = None
    /\ artists = <<>>
    /\ fa_pc = "idle"
    /\ fa_ret = None
    /\ fa_log = <<>>
    /\ fa_calls = 0
    /\ fa_file_at_call = None
    /\ resolved = EmptyDict
    /\ resolved_at_call = EmptyDict

\* no paginated walk is followed
IdlePages ==
    /\ pg_kind = "albums"
    /\ pg_id = ""
    /\ pg_offset = 0
    /\ pg_items = <<>>
    /\ pg_requests = <<>>
    /\ pg_pages = <<>>
    /\ pg_pc = "returned"

\* get_artist_tracks is not followed
IdleCatalog ==
    /\ artist_id = ""
    /\ albums = <<>>
    /\ primary_albums = <<>>
    /\ album_tracks = <<>>
    /\ all_tracks = <<>>
    /\ gt_pc = "returned"

\* main's merge, de-duplication and sort are not followed
IdleAssemble ==
    /\ merged_tracks = <<>>
    /\ unique_tracks = <<>>
    /\ sort_method = "date"
    /\ sort_order = "asc"
    /\ details = <<>>
    /\ sorted_tracks = <<>>
    /\ as_pc = "sorted"

\* add_tracks_to_playlist is not followed
IdleBatch ==
    /\ track_uris = <<>>
    /\ ab_i = 0
    /\ ab_requests = <<>>
    /\ ab_results = <<>>
    /\ ab_ret = FALSE
    /\ ab_pc = "returned"

\* load_state and save_state are not followed on the bytes of the file
IdleStore ==
    /\ disk = [exists |-> FALSE, lines |-> <<>>]
    /\ saved = None
    /\ ls_ret = <<>>
    /\ ls_opened = FALSE
    /\ st_pc = "idle"

\* main's loop over the artists is not followed
IdleCollect ==
    /\ artist_list = <<>>
    /\ cl_i = 0
    /\ cl_found = <<>>
    /\ cl_tracks = <<>>
    /\ artist_names = <<>>
    /\ main_tracks = <<>>
    /\ cl_pc = "ended"

InitCall ==
    /\ method \in Methods
    /\ max_retries \in (0..MaxRetries) \cup {DefaultMaxRetries}
    /\ json_error_is_request_exception \in BOOLEAN
    /\ retries = 0
    /\ hist = <<>>
    /\ hpc = "loop"
    /\ result = None

InLoop == hpc = "loop" /\ LoopCondition(retries, max_retries)

\* a method other than GET, POST, PUT: no request is made and
\* response.status_code reads an unbound local
UnsupportedMethod ==
    /\ UNCHANGED nonHttpVars
    /\ InLoop
    /\ ~SupportedMethod(method)
    /\ hpc' = "raised"
    /\ UNCHANGED <<method, max_retries, json_error_is_request_exception,
                   retries, hist, result>>

\* the handler of requests.exceptions.RequestException
HandleRequestException(r) ==
    IF MayRetryNetwork(retries, max_retries)
    THEN /\ hist' = Append(hist, Iteration(r, Slept(NetworkRetrySleep)))
         /\ retries' = retries + 1
         /\ UNCHANGED <<hpc, result>>
    ELSE /\ hist' = Append(hist, Iteration(r, NoSleep))
         /\ hpc' = "returned"
         /\ result' = None
         /\ UNCHANGED retries

\* the request raises a RequestException (connection error, timeout)
NetworkFailure ==
    /\ UNCHANGED nonHttpVars
    /\ InLoop
    /\ SupportedMethod(method)
    /\ HandleRequestException(NetworkError)
    /\ UNCHANGED <<method, max_retries, json_error_is_request_exception>>

\* HTTP 429
RateLimited ==
    /\ UNCHANGED nonHttpVars
    /\ InLoop
    /\ SupportedMethod(method)
    /\ \E r \in Responses :
        /\ IsRateLimit(r)
        /\ IF RetryAfterParses(r)
           THEN /\ hist' = Append(hist, Iteration(r, Slept(RetryAfterOf(r))))
                /\ retries' = retries + 1
                /\ UNCHANGED <<hpc, result>>
           ELSE \* int() raises ValueError, which nothing catches
                /\ hist' = Append(hist, Iteration(r, NoSleep))
                /\ hpc' = "raised"
                /\ UNCHANGED <<retries, result>>
    /\ UNCHANGED <<method, max_retries, json_error_is_request_exception>>

\* a status >= 400 other than 429
ErrorStatus ==
    /\ UNCHANGED nonHttpVars
    /\ InLoop
    /\ SupportedMethod(method)
    /\ \E r \in Responses :
        /\ ~IsRateLimit(r)
        /\ IsErrorStatus(r)
        /\ hist' = Append(hist, Iteration(r, NoSleep))
        /\ hpc' = "returned"
        /\ result' = None
    /\ UNCHANGED <<method, max_retries, json_error_is_request_exception,
                   retries>>

\* return response.json() if response.text else {}
Success ==
    /\ UNCHANGED nonHttpVars
    /\ InLoop
    /\ SupportedMethod(method)
    /\ \E r \in Responses :
        /\ ~IsRateLimit(r)
        /\ ~IsErrorStatus(r)
        /\ r.text = "" \/ JsonParses(r.text)
        /\ hist' = Append(hist, Iteration(r, NoSleep))
        /\ hpc' = "returned"
        /\ result' = IF r.text = "" THEN EmptyDict ELSE JsonOf(r.text)
    /\ UNCHANGED <<method, max_retries, json_error_is_request_exception,
                   retries>>

\* response.json() raises: requests.exceptions.JSONDecodeError (a
\* RequestException) in a recent requests, a plain ValueError in an older one
UnparsableBody ==
    /\ UNCHANGED nonHttpVars
    /\ InLoop
    /\ SupportedMethod(method)
    /\ \E r \in Responses :
        /\ ~IsRateLimit(r)
        /\ ~IsErrorStatus(r)
        /\ r.text # "" /\ ~JsonParses(r.text)
        /\ IF json_error_is_request_exception
           THEN HandleRequestException(r)
           ELSE /\ hist' = Append(hist, Iteration(r, NoSleep))
                /\ hpc' = "raised"
                /\ UNCHANGED <<retries, result>>
    /\ UNCHANGED <<method, max_retries, json_error_is_request_exception>>

\* the loop condition fails: "Maximum retries exceeded", return None
GiveUp ==
    /\ UNCHANGED nonHttpVars
    /\ hpc = "loop"
    /\ ~LoopCondition(retries, max_retries)
    /\ hpc' = "returned"
    /\ result' = None
    /\ UNCHANGED <<method, max_retries, json_error_is_request_exception,
                   retries, hist>>

NextHttp ==
    \/ UnsupportedMethod
    \/ NetworkFailure
    \/ RateLimited
    \/ ErrorStatus
    \/ Success
    \/ UnparsableBody
    \/ GiveUp

InitHttp ==
    /\ InitCall
    /\ InitAuth
    /\ IdleResolver
    /\ IdlePages
    /\ IdleCatalog
    /\ IdleAssemble
    /\ IdleBatch
    /\ dryrun = FALSE
    /\ IdleStore
    /\ IdleCollect

\* one call of make_spotify_request
SpecHttp == InitHttp /\ [][NextHttp]_vars

----------------------------------------------------------------------------
\* The state store

\* load_state: the document, or the default when there is no file
LoadState(f) == IF f = None THEN [artist_choices |-> EmptyDict] ELSE f

----------------------------------------------------------------------------
\* get_user_auth_token, the callback listener, and main's create-mode path

TokenBuffer == 120
WaitTimeout == 300

Hosts == {"127.0.0.1", "LOCALHOST", "example.com"}

\* str.lower() on the hostnames above
Lower(h) == IF h = "LOCALHOST" THEN "localhost" ELSE h

\* host.lower() in ('localhost', '127.0.0.1')
IsLoopback(h) == Lower(h) \in {"localhost", "127.0.0.1"}

\* mutant: no safety buffer before the expiry
CacheValid_NoBuffer(st, t) ==
    /\ "access_token" \in DOMAIN st
    /\ "expires_at" \in DOMAIN st
    /\ st.expires_at > t

\* the cached access token is usable at time t
CacheValid(st, t) ==
    /\ "access_token" \in DOMAIN st
    /\ "expires_at" \in DOMAIN st
    /\ st.expires_at > t + TokenBuffer

AccessTokens == {Str("A1"), Str("A2")}
RefreshTokens == {Str("R1"), Str("R2")}
ExpiresIn == {180, 3600}

\* what the token endpoint answers to a refresh: a payload with or without a
\* new refresh token
RefreshPayloads ==
    [access_token : AccessTokens, expires_in : ExpiresIn]
    \cup [access_token : AccessTokens, expires_in : ExpiresIn,
          refresh_token : RefreshTokens]

\* what it answers to a code exchange
ExchangePayloads ==
    [access_token : AccessTokens, expires_in : ExpiresIn,
     refresh_token : RefreshTokens]

Event(ev, arg) == [ev |-> ev, arg |-> arg]

\* mutant: a new refresh token in the response is not stored
RefreshedState_KeepsOldRefresh(st, t, td) ==
    Put(Put(st, "access_token", td.access_token),
        "expires_at", t + td.expires_in)

\* mutant: the refreshed tokens are saved as a new document
RefreshedState_TokensOnly(st, t, td) ==
    [access_token |-> td.access_token, expires_at |-> t + td.expires_in]

\* the state after a successful refresh (lines 416-420)
RefreshedState(st, t, td) ==
    LET s1 == Put(st, "access_token", td.access_token)
        s2 == Put(s1, "expires_at", t + td.expires_in)
    IN  IF "refresh_token" \in DOMAIN td
        THEN Put(s2, "refresh_token", td.refresh_token)
        ELSE s2

\* mutant: the lifetime is stored instead of the expiry time
ExchangedState_RelativeExpiry(st, t, td) ==
    Put(Put(Put(st, "access_token", td.access_token),
            "refresh_token", td.refresh_token),
        "expires_at", td.expires_in)

\* the state after a successful code exchange (lines 480-482)
ExchangedState(st, t, td) ==
    LET s1 == Put(st, "access_token", td.access_token)
        s2 == Put(s1, "refresh_token", td.refresh_token)
    IN  Put(s2, "expires_at", t + td.expires_in)

\* the query strings the listener may be sent, as key/value pairs
Queries ==
    { <<[k |-> "code", v |-> "c1"]>>,
      <<[k |-> "state", v |-> "x"], [k |-> "code", v |-> "c2"]>>,
      <<[k |-> "code", v |-> ""]>>,
      <<[k |-> "error", v |-> "access_denied"]>> }

\* urllib.parse.parse_qs(query)[key]: the non-blank values of key, in order
\* (the key is absent from the dict when there is none)
RECURSIVE ParseQs(_, _)
ParseQs(q, key) ==
    IF q = <<>> THEN <<>>
    ELSE LET rest == ParseQs(Tail(q), key)
         IN  IF Head(q).k = key /\ Head(q).v # ""
             THEN <<Head(q).v>> \o rest
             ELSE rest

\* what the operator may type at the prompt
Typed == {"", "  ", "c3", " c3 "}

\* str.strip() on the inputs above
Strip(s) == IF s = "  " THEN "" ELSE IF s = " c3 " THEN "c3" ELSE s

\* the event wait's timeout has passed
WaitExpired(start, t) == t >= start + WaitTimeout

\* mutant: the listener is left running
StopCallbackServer_LeavesRunning(srv, n) == n

\* stop_callback_server: the listeners serving afterwards
StopCallbackServer(srv, n) == IF srv # None THEN n - 1 ELSE n

\* mutant: only an empty string counts as no token
NoToken_OnlyEmptyString(tok) == tok = Str("")

\* main's "if not auth_token"
NoToken(tok) == Falsy(tok)

\* what make_spotify_request returns to get_current_user and create_playlist:
\* None after a failure, {} for an empty body, or the object
ApiReplies == {None, EmptyDict, [id |-> "x1"]}

\* mutant: main goes on whatever the request returned
NoReply_Never(reply) == FALSE

\* main's "if not user_info" and "if not playlist" (lines 622, 637)
NoReply(reply) == Falsy(reply)

\* how a finished process obtained its user token
GrantUsed ==
    IF pc = "idle" \/ Falsy(ret) THEN "none"
    ELSE IF \E i \in 1..Len(log) : log[i].ev = "token_request:authorization_code"
    THEN "authorization_code"
    ELSE IF \E i \in 1..Len(log) : log[i].ev = "token_request:refresh_token"
    THEN "refresh_token"
    ELSE "cache"

TickSteps == {60, 300}

\* a new process: main has parsed its arguments and taken the create-mode
\* branch (line 613)
StartRun ==
    /\ UNCHANGED nonAuthVars
    /\ pc \in {"idle", "done", "crashed"}
    /\ runs < MaxRuns
    /\ runs' = runs + 1
    /\ callback_host' \in Hosts
    /\ pc' = "main"
    /\ AUTH_CODE' = None
    /\ AUTH_CODE_RECEIVED' = FALSE
    /\ active_servers' = 0
    /\ callbacks' = 0
    /\ callback_status' = 0
    /\ state' = None
    /\ current_time' = 0
    /\ server' = None
    /\ wait_start' = 0
    /\ auth_code' = None
    /\ token_data' = None
    /\ ret' = None
    /\ log' = <<>>
    /\ loaded' = None
    /\ file_at_start' = file
    /\ received_at_wait_end' = FALSE
    /\ prev_run' =
        IF GrantUsed = "none" THEN NoRun
        ELSE [grant |-> GrantUsed, token |-> ret,
              expires_at |-> state.expires_at]
    /\ UNCHANGED <<file, now>>

\* time passes; a wait on the event does not outlast its timeout
Tick ==
    /\ UNCHANGED nonAuthVars
    /\ pc \in {"done", "crashed", "waiting"}
    /\ \E d \in TickSteps :
        /\ now + d <= MaxTime
        /\ pc = "waiting" => now + d <= wait_start + WaitTimeout
        /\ now' = now + d
    /\ UNCHANGED <<file, runs, pc, callback_host, AUTH_CODE,
                   AUTH_CODE_RECEIVED, active_servers, callbacks,
                   callback_status>>
    /\ UNCHANGED <<callVars, histVars>>

\* get_user_auth_token, lines 402-413: the cached token, else a refresh
\* request, else the interactive flow
GetUserAuthToken ==
    /\ UNCHANGED nonAuthVars
    /\ pc = "main"
    /\ LET st == LoadState(file)
       IN  /\ state' = st
           /\ loaded' = st
           /\ current_time' = now
           /\ IF CacheValid(st, now)
              THEN /\ ret' = st.access_token
                   /\ pc' = "returned"
                   /\ log' = log
              ELSE IF "refresh_token" \in DOMAIN st
              THEN /\ pc' = "refreshing"
                   /\ log' = Append(log, Event("token_request:refresh_token",
                                               st.refresh_token))
                   /\ ret' = ret
              ELSE /\ pc' = "interactive"
                   /\ UNCHANGED <<log, ret>>
    /\ UNCHANGED <<envVars_but_pc, server, wait_start, auth_code, token_data,
                   file_at_start, received_at_wait_end, prev_run>>

\* the token endpoint answers the refresh request (lines 413-422, 525-532)
RefreshReply ==
    /\ UNCHANGED nonAuthVars
    /\ pc = "refreshing"
    /\ \/ \E td \in RefreshPayloads :
            /\ token_data' = td
            /\ state' = RefreshedState(state, current_time, td)
            /\ file' = state'
            /\ log' = log \o <<Event("token_reply", td),
                               Event("save_state", None)>>
            /\ ret' = state'.access_token
            /\ pc' = "returned"
       \/ /\ token_data' = None
          /\ pc' = "interactive"
          /\ log' = Append(log, Event("token_reply", None))
          /\ UNCHANGED <<state, file, ret>>
    /\ UNCHANGED <<now, runs, callback_host, AUTH_CODE, AUTH_CODE_RECEIVED,
                   active_servers, callbacks, callback_status>>
    /\ UNCHANGED <<current_time, server, wait_start, auth_code>>
    /\ UNCHANGED <<loaded, file_at_start, received_at_wait_end, prev_run>>

\* requests.post raises (no connection): nothing in the call catches it
TokenRequestRaises ==
    /\ UNCHANGED nonAuthVars
    /\ pc \in {"refreshing", "exchanging"}
    /\ pc' = "raised"
    /\ UNCHANGED <<envVars_but_pc, callVars, histVars>>

\* lines 424-457: start_callback_server, webbrowser.open, and the wait or
\* the prompt
BeginInteractive ==
    /\ UNCHANGED nonAuthVars
    /\ pc = "interactive"
    /\ IF IsLoopback(callback_host)
       THEN /\ \/ /\ server' = Str("TCPServer")
                  /\ active_servers' = active_servers + 1
                  /\ log' = log \o <<Event("start_server", None),
                                     Event("open_browser", None)>>
               \/ \* the port cannot be bound: start_callback_server
                  \* returns None
                  /\ server' = None
                  /\ active_servers' = active_servers
                  /\ log' = Append(log, Event("open_browser", None))
            /\ wait_start' = now
            /\ pc' = "waiting"
       ELSE /\ server' = None
            /\ active_servers' = active_servers
            /\ log' = Append(log, Event("open_browser", None))
            /\ wait_start' = wait_start
            /\ pc' = "prompt"
    /\ UNCHANGED <<file, now, runs, callback_host, AUTH_CODE,
                   AUTH_CODE_RECEIVED, callbacks, callback_status>>
    /\ UNCHANGED <<state, current_time, auth_code, token_data, ret>>
    /\ UNCHANGED <<loaded, file_at_start, received_at_wait_end, prev_run>>

\* AuthCallbackHandler.do_GET, on the listener thread
DoGET ==
    /\ UNCHANGED nonAuthVars
    /\ active_servers > 0
    /\ callbacks < MaxCallbacks
    /\ callbacks' = callbacks + 1
    /\ \E q \in Queries :
        LET codes == ParseQs(q, "code")
        IN  IF codes # <<>>
            THEN /\ AUTH_CODE' = Str(codes[1])
                 /\ AUTH_CODE_RECEIVED' = TRUE
                 /\ callback_status' = 200
            ELSE /\ callback_status' = 400
                 /\ UNCHANGED <<AUTH_CODE, AUTH_CODE_RECEIVED>>
    /\ UNCHANGED <<file, now, runs, pc, callback_host, active_servers>>
    /\ UNCHANGED <<callVars, histVars>>

\* AUTH_CODE_RECEIVED.wait(timeout=300) returns
WaitReturns ==
    /\ UNCHANGED nonAuthVars
    /\ pc = "waiting"
    /\ AUTH_CODE_RECEIVED \/ WaitExpired(wait_start, now)
    /\ received_at_wait_end' = AUTH_CODE_RECEIVED
    /\ pc' = "stopping"
    /\ UNCHANGED <<envVars_but_pc, callVars, log, loaded, file_at_start,
                   prev_run>>

\* lines 468-473: no code ends the call, a code is sent to the token endpoint
CheckCode(code, lg) ==
    IF Falsy(code)
    THEN /\ ret' = None
         /\ pc' = "returned"
         /\ log' = lg
    ELSE /\ ret' = ret
         /\ pc' = "exchanging"
         /\ log' = Append(lg, Event("token_request:authorization_code", code))

\* lines 460-462: stop_callback_server, then auth_code = AUTH_CODE
StopAndRead ==
    /\ UNCHANGED nonAuthVars
    /\ pc = "stopping"
    /\ active_servers' = StopCallbackServer(server, active_servers)
    /\ auth_code' = AUTH_CODE
    /\ CheckCode(AUTH_CODE,
                 IF server # None
                 THEN Append(log, Event("stop_server", None)) ELSE log)
    /\ UNCHANGED <<file, now, runs, callback_host, AUTH_CODE,
                   AUTH_CODE_RECEIVED, callbacks, callback_status>>
    /\ UNCHANGED <<state, current_time, server, wait_start, token_data>>
    /\ UNCHANGED <<loaded, file_at_start, received_at_wait_end, prev_run>>

\* lines 464-466: the operator types the code
PasteCode ==
    /\ UNCHANGED nonAuthVars
    /\ pc = "prompt"
    /\ \E typed \in Typed :
        /\ auth_code' = Str(Strip(typed))
        /\ CheckCode(Str(Strip(typed)), Append(log, Event("prompt", None)))
    /\ UNCHANGED envVars_but_pc
    /\ UNCHANGED <<state, current_time, server, wait_start, token_data>>
    /\ UNCHANGED <<loaded, file_at_start, received_at_wait_end, prev_run>>

\* the token endpoint answers the code exchange (lines 473-485, 502-509)
ExchangeReply ==
    /\ UNCHANGED nonAuthVars
    /\ pc = "exchanging"
    /\ \/ \E td \in ExchangePayloads :
            /\ token_data' = td
            /\ state' = ExchangedState(state, current_time, td)
            /\ file' = state'
            /\ log' = log \o <<Event("token_reply", td),
                               Event("save_state", None)>>
            /\ ret' = td.access_token
       \/ /\ token_data' = None
          /\ ret' = None
          /\ log' = Append(log, Event("token_reply", None))
          /\ UNCHANGED <<state, file>>
    /\ pc' = "returned"
    /\ UNCHANGED <<now, runs, callback_host, AUTH_CODE, AUTH_CODE_RECEIVED,
                   active_servers, callbacks, callback_status>>
    /\ UNCHANGED <<current_time, server, wait_start, auth_code>>
    /\ UNCHANGED <<loaded, file_at_start, received_at_wait_end, prev_run>>

\* main, lines 616-618: no token, no playlist
AuthFailed ==
    /\ UNCHANGED nonAuthVars
    /\ pc = "returned"
    /\ NoToken(ret)
    /\ pc' = "done"
    /\ UNCHANGED <<envVars_but_pc, callVars, histVars>>

\* main, lines 621-626: get_current_user
GetCurrentUser ==
    /\ UNCHANGED nonAuthVars
    /\ pc = "returned"
    /\ ~NoToken(ret)
    /\ \E reply \in ApiReplies :
        /\ log' = log \o <<Event("api:me", ret), Event("reply:me", reply)>>
        /\ pc' = IF NoReply(reply) THEN "done" ELSE "have_user"
    /\ UNCHANGED <<envVars_but_pc, callVars, loaded, file_at_start,
                   received_at_wait_end, prev_run>>

\* main, lines 635-639: create_playlist
CreatePlaylist ==
    /\ UNCHANGED nonAuthVars
    /\ pc = "have_user"
    /\ \E reply \in ApiReplies :
        /\ log' = log \o <<Event("api:create_playlist", ret),
                            Event("reply:create_playlist", reply)>>
        /\ pc' = IF NoReply(reply) THEN "done" ELSE "have_playlist"
    /\ UNCHANGED <<envVars_but_pc, callVars, loaded, file_at_start,
                   received_at_wait_end, prev_run>>

\* main, lines 642-651: add_tracks_to_playlist
AddTracks ==
    /\ UNCHANGED nonAuthVars
    /\ pc = "have_playlist"
    /\ log' = Append(log, Event("api:add_tracks", ret))
    /\ pc' = "done"
    /\ UNCHANGED <<envVars_but_pc, callVars, loaded, file_at_start,
                   received_at_wait_end, prev_run>>

\* main, lines 653-654: the exception is printed and the process ends
TopLevelExcept ==
    /\ UNCHANGED nonAuthVars
    /\ pc = "raised"
    /\ pc' = "crashed"
    /\ UNCHANGED <<envVars_but_pc, callVars, histVars>>

InitRuns ==
    /\ InitAuth
    /\ IdleHttp
    /\ IdleResolver
    /\ IdlePages
    /\ IdleCatalog
    /\ IdleAssemble
    /\ IdleBatch
    /\ dryrun = FALSE
    /\ IdleStore
    /\ IdleCollect

NextAuth ==
    \/ StartRun
    \/ Tick
    \/ GetUserAuthToken
    \/ RefreshReply
    \/ TokenRequestRaises
    \/ BeginInteractive
    \/ DoGET
    \/ WaitReturns
    \/ StopAndRead
    \/ PasteCode
    \/ ExchangeReply
    \/ AuthFailed
    \/ GetCurrentUser
    \/ CreatePlaylist
    \/ AddTracks
    \/ TopLevelExcept

\* runs of main's create-mode path, one process after the other
SpecAuth == InitRuns /\ [][NextAuth]_vars

----------------------------------------------------------------------------
\* find_artist

SearchLimit == 10

\* the names main passes
ArtistNames == {"BTS", "V"}

\* the artist objects the API serves
Catalogue ==
    { [id |-> "a1", name |-> "BTS", followers |-> 9],
      [id |-> "a2", name |-> "BTS Tribute", followers |-> 1],
      [id |-> "a3", name |-> "V", followers |-> 5] }

\* the sequences over S of length at most n
SeqsUpTo(S, n) == UNION { [1..k -> S] : k \in 0..n }

\* d.get(k, default)
Get(d, k, default) == IF k \in DOMAIN d THEN d[k] ELSE default

\* del d[k]
Del(d, k) == [x \in DOMAIN d \ {k} |-> d[x]]

\* what make_spotify_request returns for artists/{id}: the artist, None after
\* an error status or exhausted retries, {} for an empty body
LookupReplies(id) == { a \in Catalogue : a.id = id } \cup {None, EmptyDict}

\* what it returns for search
SearchReplies ==
    {None, EmptyDict, [artists |-> EmptyDict]}
    \cup { [artists |-> [items |-> s]] : s \in SeqsUpTo(Catalogue, MaxResults) }

\* the lines the operator may enter at the prompt, as characters
Lines ==
    { <<"q">>, <<"Q">>, <<"x">>, <<"0">>, <<"1">>, <<"2">>, <<"9">> }

\* str.lower() on the lines above
LowerLine(s) == [i \in 1..Len(s) |-> IF s[i] = "Q" THEN "q" ELSE s[i]]

\* mutant: a saved choice is never used
Cached_Never(st, n) == FALSE

\* "artist_choices" in state and artist_name in state["artist_choices"]
Cached(st, n) ==
    /\ "artist_choices" \in DOMAIN st
    /\ n \in DOMAIN st.artist_choices

\* mutant: the invalid entry is kept
Evicted_KeepsEntry(st, n) == st

\* del state["artist_choices"][artist_name]
Evicted(st, n) == Put(st, "artist_choices", Del(st.artist_choices, n))

\* the entry find_artist saves for an artist
ChoiceOf(artist) == [id |-> artist.id, name |-> artist.name]

\* state["artist_choices"][artist_name] = {...}, creating the map if missing
Remembered(st, n, artist) ==
    Put(st, "artist_choices",
        Put(Get(st, "artist_choices", EmptyDict), n, ChoiceOf(artist)))

\* results["artists"]["items"] when the search found something, else no items
ItemsOf(results) ==
    IF Falsy(results) THEN <<>>
    ELSE Get(Get(results, "artists", EmptyDict), "items", <<>>)

\* mutant: the first result is taken whenever there is one
SelectsDirectly_First(items) == Len(items) >= 1

\* len(artists) == 1
SelectsDirectly(items) == Len(items) = 1

\* choice.lower() == 'q'
IsSkip(line) == LowerLine(line) = <<"q">>

\* 0 <= choice_idx < len(artists)
InRange(choice_idx, items) == 0 <= choice_idx /\ choice_idx < Len(items)

SearchParams(n) == [q |-> n, type |-> "artist", limit |-> SearchLimit]

\* find_artist is called: the state is loaded and either the saved artist is
\* looked up or the search is sent (lines 208-215, 226-232)
FindArtist ==
    /\ UNCHANGED nonResolverVars
    /\ fa_pc \in {"idle", "returned"}
    /\ fa_calls < MaxCalls
    /\ \E n \in ArtistNames :
        LET st == LoadState(file)
        IN  /\ artist_name' = n
            /\ fa_state' = st
            /\ IF Cached(st, n)
               THEN /\ fa_pc' = "lookup"
                    /\ fa_log' =
                        <<Event("request:artists", st.artist_choices[n].id)>>
               ELSE /\ fa_pc' = "search"
                    /\ fa_log' = <<Event("request:search", SearchParams(n))>>
    /\ artists' = <<>>
    /\ fa_ret' = None
    /\ fa_calls' = fa_calls + 1
    /\ fa_file_at_call' = file
    /\ resolved_at_call' = resolved
    /\ UNCHANGED <<file, resolved>>

\* the saved artist still exists: it is returned (lines 216-217)
LookupValid ==
    /\ UNCHANGED nonResolverVars
    /\ fa_pc = "lookup"
    /\ \E artist_data \in LookupReplies(fa_state.artist_choices[artist_name].id) :
        /\ ~Falsy(artist_data)
        /\ fa_ret' = artist_data
        /\ fa_log' = Append(fa_log, Event("reply:artists", artist_data))
    /\ fa_pc' = "returned"
    /\ UNCHANGED <<artist_name, fa_state, artists, fa_calls, fa_file_at_call,
                   resolved, resolved_at_call, file>>

\* the lookup returns no artist: the entry is deleted, the state saved, and
\* the search sent (lines 218-232)
LookupInvalid ==
    /\ UNCHANGED nonResolverVars
    /\ fa_pc = "lookup"
    /\ \E artist_data \in LookupReplies(fa_state.artist_choices[artist_name].id) :
        /\ Falsy(artist_data)
        /\ LET st == Evicted(fa_state, artist_name)
           IN  /\ fa_state' = st
               /\ file' = st
               /\ fa_log' = fa_log \o
                    << Event("reply:artists", artist_data),
                       Event("save_state", st),
                       Event("request:search", SearchParams(artist_name)) >>
    /\ fa_pc' = "search"
    /\ UNCHANGED <<artist_name, artists, fa_ret, fa_calls, fa_file_at_call,
                   resolved, resolved_at_call>>

\* an artist is returned from the search: the choice is saved (lines 245-254,
\* 274-283)
ReturnFromSearch(artist, seen) ==
    LET st == Remembered(fa_state, artist_name, artist)
    IN  /\ fa_state' = st
        /\ file' = st
        /\ fa_log' = fa_log \o seen \o <<Event("save_state", st)>>
        /\ fa_ret' = artist
        /\ fa_pc' = "returned"
        /\ resolved' = Put(resolved, artist_name, artist.id)

\* no artist is returned from the search (lines 234-236, 266-267)
ReturnNone(seen) ==
    /\ fa_log' = fa_log \o seen
    /\ fa_ret' = None
    /\ fa_pc' = "returned"
    /\ resolved' = Del(resolved, artist_name)
    /\ UNCHANGED <<fa_state, file>>

\* the search is answered (lines 232-261)
SearchReply ==
    /\ UNCHANGED nonResolverVars
    /\ fa_pc = "search"
    /\ \E results \in SearchReplies :
        LET items == ItemsOf(results)
            seen == <<Event("reply:search", results)>>
        IN  /\ artists' = items
            /\ IF items = <<>>
               THEN ReturnNone(seen)
               ELSE IF SelectsDirectly(items)
               THEN ReturnFromSearch(items[1], seen)
               ELSE /\ fa_log' = fa_log \o seen
                    /\ fa_pc' = "choose"
                    /\ UNCHANGED <<fa_state, file, fa_ret, resolved>>
    /\ UNCHANGED <<artist_name, fa_calls, fa_file_at_call, resolved_at_call>>

\* the operator enters a line at the prompt (lines 263-287)
Choose ==
    /\ UNCHANGED nonResolverVars
    /\ fa_pc = "choose"
    /\ \E choice \in Lines :
        LET seen == <<Event("input", choice)>>
        IN  IF IsSkip(choice)
            THEN ReturnNone(seen)
            ELSE IF IntParses(choice) /\ InRange(IntOf(choice) - 1, artists)
            THEN ReturnFromSearch(artists[IntOf(choice)], seen)
            ELSE \* "Invalid choice" or ValueError: the prompt is shown again
                 /\ Cardinality({ i \in 1..Len(fa_log) :
                                    fa_log[i].ev = "input" }) < MaxInvalid
                 /\ fa_log' = fa_log \o seen
                 /\ UNCHANGED <<fa_state, file, fa_ret, fa_pc, resolved>>
    /\ UNCHANGED <<artist_name, artists, fa_calls, fa_file_at_call,
                   resolved_at_call>>

InitResolver ==
    /\ InitAuth
    /\ IdleHttp
    /\ IdleResolver
    /\ IdlePages
    /\ IdleCatalog
    /\ IdleAssemble
    /\ IdleBatch
    /\ dryrun = FALSE
    /\ IdleStore
    /\ IdleCollect

NextResolver ==
    \/ FindArtist
    \/ LookupValid
    \/ LookupInvalid
    \/ SearchReply
    \/ Choose

\* calls of find_artist, one after the other, on one state file
SpecResolver == InitResolver /\ [][NextResolver]_vars

----------------------------------------------------------------------------
\* get_artist_albums and get_album_tracks

PageLimit == 50

\* the artist_id arguments explored
ArtistIds == {"a1", "a2"}

\* the items of a page: Spotify objects, here their position in the listing
PageItems(offset, n) == [i \in 1..n |-> [id |-> offset + i]]

\* the sizes of the pages served: none, short ones and a full one
PageSizes == {0, 1, PageLimit - 1, PageLimit}

\* what make_spotify_request returns for a page request: None, {}, or a page
\* with its items and its "next" link (null, a URL, or missing)
PageReplies(offset) ==
    {None, EmptyDict}
    \cup { [items |-> PageItems(offset, n), next |-> nx] :
            n \in PageSizes, nx \in {None, Str("https://next")} }
    \cup { [items |-> PageItems(offset, PageLimit)] }

\* the endpoint, as path segments
PageEndpoint(kind, id) ==
    IF kind = "albums" THEN <<"artists", id, "albums">>
    ELSE <<"albums", id, "tracks">>

\* the params of lines 296-300 and 323-326
PageParams(kind, offset) ==
    IF kind = "albums"
    THEN [include_groups |-> "album,single", limit |-> PageLimit,
          offset |-> offset]
    ELSE [limit |-> PageLimit, offset |-> offset]

PageRequest(kind, id, offset) ==
    [endpoint |-> PageEndpoint(kind, id), params |-> PageParams(kind, offset)]

\* not results or not results.get("items")
NoItems(results) == Falsy(results) \/ Get(results, "items", <<>>) = <<>>

\* mutant: the "next" link is not looked at
IsLastPage_IgnoresNext(results) == Len(results.items) < PageLimit

\* len(results["items"]) < limit or not results.get("next")
IsLastPage(results) ==
    \/ Len(results.items) < PageLimit
    \/ Falsy(Get(results, "next", None))

\* the request fails or the page has no items: break (lines 304-305)
PageWithoutItems ==
    /\ UNCHANGED nonPageVars
    /\ pg_pc = "loop"
    /\ \E results \in PageReplies(pg_offset) :
        /\ NoItems(results)
        /\ pg_pages' = Append(pg_pages, results)
    /\ pg_requests' = Append(pg_requests, PageRequest(pg_kind, pg_id, pg_offset))
    /\ pg_pc' = "returned"
    /\ UNCHANGED <<pg_kind, pg_id, pg_offset, pg_items>>

\* a short page or one without a next page: extend, break (lines 307-310)
LastPageFetched ==
    /\ UNCHANGED nonPageVars
    /\ pg_pc = "loop"
    /\ \E results \in PageReplies(pg_offset) :
        /\ ~NoItems(results)
        /\ IsLastPage(results)
        /\ pg_pages' = Append(pg_pages, results)
        /\ pg_items' = pg_items \o results.items
    /\ pg_requests' = Append(pg_requests, PageRequest(pg_kind, pg_id, pg_offset))
    /\ pg_pc' = "returned"
    /\ UNCHANGED <<pg_kind, pg_id, pg_offset>>

\* a full page with a next page: extend, offset += limit (lines 307-312)
FullPageFetched ==
    /\ UNCHANGED nonPageVars
    /\ pg_pc = "loop"
    /\ Len(pg_requests) + 1 < MaxPages
    /\ \E results \in PageReplies(pg_offset) :
        /\ ~NoItems(results)
        /\ ~IsLastPage(results)
        /\ pg_pages' = Append(pg_pages, results)
        /\ pg_items' = pg_items \o results.items
    /\ pg_requests' = Append(pg_requests, PageRequest(pg_kind, pg_id, pg_offset))
    /\ pg_offset' = pg_offset + PageLimit
    /\ UNCHANGED <<pg_kind, pg_id, pg_pc>>

InitPages ==
    /\ InitAuth
    /\ IdleHttp
    /\ IdleResolver
    /\ pg_kind \in {"albums", "tracks"}
    /\ pg_id \in IF pg_kind = "albums" THEN ArtistIds ELSE {"al1", "al4"}
    /\ pg_offset = 0
    /\ pg_items = <<>>
    /\ pg_requests = <<>>
    /\ pg_pages = <<>>
    /\ pg_pc = "loop"
    /\ IdleCatalog
    /\ IdleAssemble
    /\ IdleBatch
    /\ dryrun = FALSE
    /\ IdleStore
    /\ IdleCollect

NextPages ==
    \/ PageWithoutItems
    \/ LastPageFetched
    \/ FullPageFetched

\* one call of get_artist_albums or of get_album_tracks
SpecPages == InitPages /\ [][NextPages]_vars

----------------------------------------------------------------------------
\* get_artist_tracks

\* the albums get_artist_albums may list: the artist's own, one the artist is
\* featured on, one without artists, and a collaboration the artist leads
AlbumPool ==
    { [id |-> "al1", artists |-> <<[id |-> "a1"]>>,
       release_date |-> Date2010Jan],
      [id |-> "al2", artists |-> <<[id |-> "a2"], [id |-> "a1"]>>,
       release_date |-> Date2015],
      [id |-> "al3", artists |-> <<>>, release_date |-> Date2015],
      [id |-> "al4", artists |-> <<[id |-> "a1"], [id |-> "a2"]>>,
       release_date |-> Date2010] }

\* the tracks get_album_tracks may return
AlbumTrackPool ==
    { [id |-> "t1", artists |-> <<[id |-> "a1"]>>],
      [id |-> "t2", artists |-> <<[id |-> "a2"], [id |-> "a1"]>>],
      [id |-> "t3", artists |-> <<>>] }

\* xs[:1]
FirstOne(xs) == SubSeq(xs, 1, IF Len(xs) < 1 THEN Len(xs) ELSE 1)

\* any(a['id'] == id for a in xs)
AnyIs(xs, id) == \E i \in 1..Len(xs) : xs[i].id = id

\* line 352
IsPrimaryAlbum(album, id) ==
    /\ album.artists # <<>>
    /\ AnyIs(FirstOne(album.artists), id)

\* mutant: any credit on the track counts
IsPrimaryTrack_AnyCredit(track, id) == AnyIs(track.artists, id)

\* line 363
IsPrimaryTrack(track, id) == AnyIs(FirstOne(track.artists), id)

\* track['album_release_date'] = album['release_date']
Stamped(track, album) ==
    Put(track, "album_release_date", album.release_date)

\* the tracks of one album that lines 361-366 append
RECURSIVE KeptTracks(_, _, _)
KeptTracks(tracks, album, id) ==
    IF tracks = <<>> THEN <<>>
    ELSE LET rest == KeptTracks(Tail(tracks), album, id)
         IN  IF IsPrimaryTrack(Head(tracks), id)
             THEN <<Stamped(Head(tracks), album)>> \o rest
             ELSE rest

\* get_artist_albums has returned: the primary albums are selected
\* (lines 345-355)
GetArtistAlbums ==
    /\ UNCHANGED nonCatalogVars
    /\ gt_pc = "albums"
    /\ \E listed \in SeqsUpTo(AlbumPool, MaxAlbums) :
        LET Primary(album) == IsPrimaryAlbum(album, artist_id)
        IN  /\ albums' = listed
            /\ primary_albums' = SelectSeq(listed, Primary)
    /\ gt_pc' = "tracks"
    /\ UNCHANGED <<artist_id, album_tracks, all_tracks>>

\* get_album_tracks has returned for the next primary album: the artist's
\* tracks are stamped and appended (lines 359-366)
GetAlbumTracks ==
    /\ UNCHANGED nonCatalogVars
    /\ gt_pc = "tracks"
    /\ Len(album_tracks) < Len(primary_albums)
    /\ LET album == primary_albums[Len(album_tracks) + 1]
       IN  \E tracks \in SeqsUpTo(AlbumTrackPool, MaxAlbumTracks) :
            /\ album_tracks' =
                Append(album_tracks, [album |-> album, tracks |-> tracks])
            /\ all_tracks' = all_tracks \o KeptTracks(tracks, album, artist_id)
    /\ UNCHANGED <<artist_id, albums, primary_albums, gt_pc>>

\* line 368
ReturnAllTracks ==
    /\ UNCHANGED nonCatalogVars
    /\ gt_pc = "tracks"
    /\ Len(album_tracks) = Len(primary_albums)
    /\ gt_pc' = "returned"
    /\ UNCHANGED <<artist_id, albums, primary_albums, album_tracks,
                   all_tracks>>

InitTracks ==
    /\ InitAuth
    /\ IdleHttp
    /\ IdleResolver
    /\ IdlePages
    /\ artist_id \in ArtistIds
    /\ albums = <<>>
    /\ primary_albums = <<>>
    /\ album_tracks = <<>>
    /\ all_tracks = <<>>
    /\ gt_pc = "albums"
    /\ IdleAssemble
    /\ IdleBatch
    /\ dryrun = FALSE
    /\ IdleStore
    /\ IdleCollect

NextTracks ==
    \/ GetArtistAlbums
    \/ GetAlbumTracks
    \/ ReturnAllTracks

\* one call of get_artist_tracks
SpecTracks == InitTracks /\ [][NextTracks]_vars

----------------------------------------------------------------------------
\* main's de-duplication, and sort_tracks

\* the tracks main may have collected: two of the same date, one ID found on
\* two albums, two of the same name, names that differ in case
MergedPool ==
    { [id |-> "t1", name |-> <<"A">>, album_release_date |-> Date2010],
      [id |-> "t2", name |-> <<"a">>, album_release_date |-> Date2010],
      [id |-> "t1", name |-> <<"B">>, album_release_date |-> Date2015],
      [id |-> "t3", name |-> <<"A">>, album_release_date |-> Date2010Jan],
      [id |-> "t4", name |-> <<"A", "b">>, album_release_date |-> Date2015] }

SortMethods == {"date", "popularity", "name", "other"}

SortOrders == {"asc", "desc", "DESC"}

\* str.lower() on the orders above
LowerOrder(o) == IF o = "DESC" THEN "desc" ELSE o

\* what get_track_details answers for a track: nothing, or a popularity
PopularityReplies == { <<>>, <<0>>, <<50>> }

\* the track object of tracks/{id}, or None when the request failed
DetailOf(track, reply) ==
    IF reply = <<>> THEN None
    ELSE [id |-> track.id, name |-> track.name, popularity |-> reply[1]]

\* mutant: the last occurrence of an ID is kept
RECURSIVE Deduped_KeepsLast(_, _)
Deduped_KeepsLast(tracks, track_ids) ==
    IF tracks = <<>> THEN <<>>
    ELSE IF \E i \in 2..Len(tracks) : tracks[i].id = Head(tracks).id
    THEN Deduped_KeepsLast(Tail(tracks), track_ids)
    ELSE <<Head(tracks)>> \o Deduped_KeepsLast(Tail(tracks), track_ids)

\* lines 594-599: the tracks whose ID is not among track_ids, each ID once
RECURSIVE Deduped(_, _)
Deduped(tracks, track_ids) ==
    IF tracks = <<>> THEN <<>>
    ELSE IF Head(tracks).id \in track_ids
    THEN Deduped(Tail(tracks), track_ids)
    ELSE <<Head(tracks)>>
            \o Deduped(Tail(tracks), track_ids \cup {Head(tracks).id})

\* a string as the sequence of its code points
StrKey(str) == [i \in 1..Len(str) |-> CodePoint[str[i]]]

\* the key function of each sorted() call, as a sequence of numbers
KeyOf(x, sort_by) ==
    IF sort_by = "date" THEN StrKey(Get(x, "album_release_date", <<>>))
    ELSE IF sort_by = "name" THEN StrKey(x.name)
    ELSE <<Get(x, "popularity", 0)>>

\* a < b for Python strings (by code point) and one-number keys
RECURSIVE LexLess(_, _)
LexLess(a, b) ==
    IF b = <<>> THEN FALSE
    ELSE IF a = <<>> THEN TRUE
    ELSE IF Head(a) < Head(b) THEN TRUE
    ELSE IF Head(a) > Head(b) THEN FALSE
    ELSE LexLess(Tail(a), Tail(b))

\* mutant: a descending sort that reverses equal keys
ComesBefore_TiesReversed(kx, ke, reverse) ==
    IF reverse THEN ~LexLess(kx, ke) ELSE LexLess(kx, ke)

\* sorted() puts x before an earlier element e only when x's key is strictly
\* smaller (strictly greater with reverse=True)
ComesBefore(kx, ke, reverse) ==
    IF reverse THEN LexLess(ke, kx) ELSE LexLess(kx, ke)

\* x put into a list sorted() has ordered so far
RECURSIVE Inserted(_, _, _, _)
Inserted(xs, x, sort_by, reverse) ==
    IF xs = <<>> THEN <<x>>
    ELSE IF ComesBefore(KeyOf(x, sort_by), KeyOf(Head(xs), sort_by), reverse)
    THEN <<x>> \o xs
    ELSE <<Head(xs)>> \o Inserted(Tail(xs), x, sort_by, reverse)

\* sorted(xs, key=..., reverse=reverse)
RECURSIVE SortedBy(_, _, _)
SortedBy(xs, sort_by, reverse) ==
    IF xs = <<>> THEN <<>>
    ELSE Inserted(SortedBy(SubSeq(xs, 1, Len(xs) - 1), sort_by, reverse),
                  xs[Len(xs)], sort_by, reverse)

IsTruthy(v) == ~Falsy(v)

\* sort_tracks, given what get_track_details returned for each track
SortTracks(tracks, sort_by, order, detailed) ==
    LET reverse == LowerOrder(order) = "desc"
    IN  IF sort_by = "date" THEN SortedBy(tracks, "date", reverse)
        ELSE IF sort_by = "popularity"
        THEN SortedBy(SelectSeq(detailed, IsTruthy), "popularity", reverse)
        ELSE IF sort_by = "name" THEN SortedBy(tracks, "name", reverse)
        ELSE tracks

\* lines 589-591
NoTracksFound ==
    /\ UNCHANGED nonAssembleVars
    /\ as_pc = "merged"
    /\ merged_tracks = <<>>
    /\ as_pc' = "ended"
    /\ UNCHANGED <<merged_tracks, unique_tracks, sort_method, sort_order,
                   details, sorted_tracks>>

\* lines 593-599
RemoveDuplicates ==
    /\ UNCHANGED nonAssembleVars
    /\ as_pc = "merged"
    /\ merged_tracks # <<>>
    /\ unique_tracks' = Deduped(merged_tracks, {})
    /\ as_pc' = "unique"
    /\ UNCHANGED <<merged_tracks, sort_method, sort_order, details,
                   sorted_tracks>>

\* line 604: sort_tracks, with its track-detail requests when it sorts by
\* popularity
SortUniqueTracks ==
    /\ UNCHANGED nonAssembleVars
    /\ as_pc = "unique"
    /\ \E replies \in [1..Len(unique_tracks) -> PopularityReplies] :
        /\ sort_method # "popularity" =>
            \A i \in 1..Len(unique_tracks) : replies[i] = <<>>
        /\ LET detailed == [i \in 1..Len(unique_tracks) |->
                                DetailOf(unique_tracks[i], replies[i])]
           IN  /\ details' = IF sort_method = "popularity" THEN detailed
                             ELSE <<>>
               /\ sorted_tracks' =
                    SortTracks(unique_tracks, sort_method, sort_order, detailed)
    /\ as_pc' = "sorted"
    /\ UNCHANGED <<merged_tracks, unique_tracks, sort_method, sort_order>>

\* mutant: the dry-run flag is not honoured
TakesDryRunBranch_Never(flag) == FALSE

\* line 606
TakesDryRunBranch(flag) == flag

\* lines 606-612: the dry run prints the sorted tracks
PrintsTracks ==
    /\ UNCHANGED nonAssembleVars
    /\ as_pc = "sorted"
    /\ TakesDryRunBranch(dryrun)
    /\ as_pc' = "ended"
    /\ UNCHANGED <<merged_tracks, unique_tracks, sort_method, sort_order,
                   details, sorted_tracks>>

\* lines 615-626: no user token or no user profile, main returns
CreateModeStops ==
    /\ UNCHANGED nonAssembleVars
    /\ as_pc = "sorted"
    /\ ~TakesDryRunBranch(dryrun)
    /\ as_pc' = "ended"
    /\ UNCHANGED <<merged_tracks, unique_tracks, sort_method, sort_order,
                   details, sorted_tracks>>

\* lines 615-635: the token and the profile were obtained and
\* create_playlist sends its request
PlaylistRequested ==
    /\ UNCHANGED nonAssembleVars
    /\ as_pc = "sorted"
    /\ ~TakesDryRunBranch(dryrun)
    /\ as_pc' = "creating"
    /\ UNCHANGED <<merged_tracks, unique_tracks, sort_method, sort_order,
                   details, sorted_tracks>>

InitAssemble ==
    /\ InitAuth
    /\ IdleHttp
    /\ IdleResolver
    /\ IdlePages
    /\ IdleCatalog
    /\ merged_tracks \in SeqsUpTo(MergedPool, MaxMerged)
    /\ unique_tracks = <<>>
    /\ sort_method \in SortMethods
    /\ sort_order \in SortOrders
    /\ details = <<>>
    /\ sorted_tracks = <<>>
    /\ as_pc = "merged"
    /\ IdleBatch
    /\ dryrun \in BOOLEAN
    /\ IdleStore
    /\ IdleCollect

NextAssemble ==
    \/ NoTracksFound
    \/ RemoveDuplicates
    \/ SortUniqueTracks
    \/ PrintsTracks
    \/ CreateModeStops
    \/ PlaylistRequested

\* main from the merged track list to the sorted one
SpecAssemble == InitAssemble /\ [][NextAssemble]_vars

----------------------------------------------------------------------------
\* add_tracks_to_playlist

BatchSize == 100

\* what make_spotify_request returns for a batch: None after an error status
\* or exhausted retries, {} for a success without a body, or the snapshot
AddReplies == {None, EmptyDict, [snapshot_id |-> "s1"]}

\* mutant: the slice is one longer
Batch_OneMore(uris, i) ==
    SubSeq(uris, i + 1,
           IF i + BatchSize + 1 < Len(uris) THEN i + BatchSize + 1
           ELSE Len(uris))

\* track_uris[i:i+100]
Batch(uris, i) ==
    SubSeq(uris, i + 1,
           IF i + BatchSize < Len(uris) THEN i + BatchSize ELSE Len(uris))

AddRequest(batch) ==
    [method |-> "POST", endpoint |-> <<"playlists", "p1", "tracks">>,
     data |-> [uris |-> batch]]

\* a batch is sent and the result is truthy: on to the next (lines 551-555)
BatchAdded ==
    /\ UNCHANGED nonBatchVars
    /\ ab_pc = "loop"
    /\ ab_i < Len(track_uris)
    /\ \E res \in AddReplies :
        /\ ~Falsy(res)
        /\ ab_results' = Append(ab_results, res)
    /\ ab_requests' = Append(ab_requests, AddRequest(Batch(track_uris, ab_i)))
    /\ ab_i' = ab_i + BatchSize
    /\ UNCHANGED <<track_uris, ab_ret, ab_pc>>

\* a batch is sent and "not result" holds: return False (lines 555-557)
BatchFails ==
    /\ UNCHANGED nonBatchVars
    /\ ab_pc = "loop"
    /\ ab_i < Len(track_uris)
    /\ \E res \in AddReplies :
        /\ Falsy(res)
        /\ ab_results' = Append(ab_results, res)
    /\ ab_requests' = Append(ab_requests, AddRequest(Batch(track_uris, ab_i)))
    /\ ab_ret' = FALSE
    /\ ab_pc' = "returned"
    /\ UNCHANGED <<track_uris, ab_i>>

\* the range is exhausted: return True (line 558)
AllAdded ==
    /\ UNCHANGED nonBatchVars
    /\ ab_pc = "loop"
    /\ ab_i >= Len(track_uris)
    /\ ab_ret' = TRUE
    /\ ab_pc' = "returned"
    /\ UNCHANGED <<track_uris, ab_i, ab_requests, ab_results>>

InitBatch ==
    /\ InitAuth
    /\ IdleHttp
    /\ IdleResolver
    /\ IdlePages
    /\ IdleCatalog
    /\ IdleAssemble
    /\ \E n \in 0..MaxUris : track_uris = [k \in 1..n |-> k]
    /\ ab_i = 0
    /\ ab_requests = <<>>
    /\ ab_results = <<>>
    /\ ab_ret = FALSE
    /\ ab_pc = "loop"
    /\ dryrun = FALSE
    /\ IdleStore
    /\ IdleCollect

NextBatch ==
    \/ BatchAdded
    \/ BatchFails
    \/ AllAdded

\* one call of add_tracks_to_playlist
SpecBatch == InitBatch /\ [][NextBatch]_vars

----------------------------------------------------------------------------
\* main, from the parsed arguments to the dry-run listing or the playlist

\* what the find_artist calls of lines 581-587 may leave in the state file:
\* nothing new, a saved choice, or a saved choice less
ArtistCacheWrites(f) ==
    LET st == LoadState(f)
    IN  {f}
        \cup { Remembered(st, "BTS", a) : a \in {x \in Catalogue : x.id = "a1"} }
        \cup { Evicted(st, n) : n \in {x \in ArtistNames : Cached(st, x)} }

\* the state files a process may find: none, and the ones earlier processes
\* leave, with or without a saved choice, with or without tokens, the access
\* token usable or expired
StoredFiles ==
    LET choice == [n \in {"V"} |-> [id |-> "a3", name |-> "V"]]
        plain == { [artist_choices |-> EmptyDict], [artist_choices |-> choice] }
        td == [access_token |-> Str("A2"), expires_in |-> 0,
               refresh_token |-> Str("R2")]
    IN  {None} \cup plain
        \cup { ExchangedState(d, t, td) : d \in plain, t \in {0, 3600} }

\* the process starts: the arguments are parsed (line 561)
StartMain ==
    /\ UNCHANGED <<httpVars, resolverVars, pageVars, catalogVars,
                   assembleVars, batchVars, storeVars, collectVars>>
    /\ pc = "idle"
    /\ runs' = runs + 1
    /\ dryrun' \in BOOLEAN
    /\ callback_host' \in Hosts
    /\ pc' = "collecting"
    /\ AUTH_CODE' = None
    /\ AUTH_CODE_RECEIVED' = FALSE
    /\ active_servers' = 0
    /\ callbacks' = 0
    /\ callback_status' = 0
    /\ state' = None
    /\ current_time' = 0
    /\ server' = None
    /\ wait_start' = 0
    /\ auth_code' = None
    /\ token_data' = None
    /\ ret' = None
    /\ log' = <<>>
    /\ loaded' = None
    /\ file_at_start' = file
    /\ received_at_wait_end' = FALSE
    /\ prev_run' =
        IF GrantUsed = "none" THEN NoRun
        ELSE [grant |-> GrantUsed, token |-> ret,
              expires_at |-> state.expires_at]
    /\ UNCHANGED <<file, now>>

\* lines 565-591: no client token, no artist names, or no tracks: main returns
EndsEarly ==
    /\ UNCHANGED nonAuthVars
    /\ pc = "collecting"
    /\ file' \in ArtistCacheWrites(file)
    /\ pc' = "done"
    /\ UNCHANGED <<now, runs, callback_host, AUTH_CODE, AUTH_CODE_RECEIVED,
                   active_servers, callbacks, callback_status, callVars,
                   histVars>>

\* a request of lines 565-604 raises
CollectingRaises ==
    /\ UNCHANGED nonAuthVars
    /\ pc = "collecting"
    /\ file' \in ArtistCacheWrites(file)
    /\ pc' = "raised"
    /\ UNCHANGED <<now, runs, callback_host, AUTH_CODE, AUTH_CODE_RECEIVED,
                   active_servers, callbacks, callback_status, callVars,
                   histVars>>

\* lines 565-604: the artists are resolved, their tracks collected,
\* de-duplicated and sorted
CollectAndSort ==
    /\ UNCHANGED nonAuthVars
    /\ pc = "collecting"
    /\ file' \in ArtistCacheWrites(file)
    /\ pc' = "sorted"
    /\ UNCHANGED <<now, runs, callback_host, AUTH_CODE, AUTH_CODE_RECEIVED,
                   active_servers, callbacks, callback_status, callVars,
                   histVars>>

\* lines 606-612: the tracks are printed
DryRunPrints ==
    /\ UNCHANGED nonAuthVars
    /\ pc = "sorted"
    /\ TakesDryRunBranch(dryrun)
    /\ pc' = "done"
    /\ UNCHANGED <<envVars_but_pc, callVars, histVars>>

\* line 613: the create-mode branch
EnterCreateMode ==
    /\ UNCHANGED nonAuthVars
    /\ pc = "sorted"
    /\ ~TakesDryRunBranch(dryrun)
    /\ pc' = "main"
    /\ UNCHANGED <<envVars_but_pc, callVars, histVars>>

NextMain ==
    \/ StartMain
    \/ EndsEarly
    \/ CollectingRaises
    \/ CollectAndSort
    \/ DryRunPrints
    \/ EnterCreateMode
    \/ Tick
    \/ GetUserAuthToken
    \/ RefreshReply
    \/ TokenRequestRaises
    \/ BeginInteractive
    \/ DoGET
    \/ WaitReturns
    \/ StopAndRead
    \/ PasteCode
    \/ ExchangeReply
    \/ AuthFailed
    \/ GetCurrentUser
    \/ CreatePlaylist
    \/ AddTracks
    \/ TopLevelExcept

InitMain ==
    /\ \E f \in StoredFiles : InitAuthFrom(f)
    /\ IdleHttp
    /\ IdleResolver
    /\ IdlePages
    /\ IdleCatalog
    /\ IdleAssemble
    /\ IdleBatch
    /\ dryrun = FALSE
    /\ IdleStore
    /\ IdleCollect

\* one process of main in either mode, on the state file it finds
SpecMain == InitMain /\ [][NextMain]_vars

----------------------------------------------------------------------------
\* load_state and save_state on the bytes of the state file (lines 120-136)

\* the document load_state falls back to (line 128)
DefaultState == [artist_choices |-> EmptyDict]

\* the documents save_state is given: the default, with saved artist choices,
\* and with the tokens of a code exchange at two times
StoreDocs ==
    LET bts == Remembered(DefaultState, "BTS",
                          CHOOSE a \in Catalogue : a.id = "a1")
        both == Remembered(bts, "V", CHOOSE a \in Catalogue : a.id = "a3")
        plain == {DefaultState, bts, both}
        td == [access_token |-> Str("A1"), expires_in |-> 3600,
               refresh_token |-> Str("R1")]
    IN  plain \cup { ExchangedState(d, t, td) : d \in plain, t \in {0, MaxTime} }

\* str(n) for a non-negative integer, as characters
RECURSIVE FormatInt(_)
FormatInt(n) ==
    IF n < 10 THEN <<Digits[n + 1]>>
    ELSE Append(FormatInt(n \div 10), Digits[(n % 10) + 1])

\* the keys whose values are objects, strings held as token values, and the
\* order in which the members of a document are written
ObjectKeys == {"artist_choices"} \cup ArtistNames
TokenKeys == {"access_token", "refresh_token"}
KeyOrder == <<"artist_choices", "BTS", "V", "id", "name", "access_token",
              "refresh_token", "expires_at">>

Line(kind, key, text) == [kind |-> kind, key |-> key, text |-> text]

\* the lines json.dump(..., indent=2) writes for the members of d whose keys
\* are KeyOrder[i..]: one line per scalar member, an opening and a closing
\* line around the members of an object
RECURSIVE DumpMembers(_, _)
DumpMembers(d, i) ==
    IF i > Len(KeyOrder) THEN <<>>
    ELSE LET k == KeyOrder[i]
             rest == DumpMembers(d, i + 1)
         IN  IF k \notin DOMAIN d THEN rest
             ELSE IF k \in ObjectKeys
             THEN <<Line("open", k, <<>>)>> \o DumpMembers(d[k], 1)
                    \o <<Line("close", "", <<>>)>> \o rest
             ELSE IF k \in TokenKeys
             THEN <<Line("string", k, <<d[k].str>>)>> \o rest
             ELSE IF k = "expires_at"
             THEN <<Line("number", k, FormatInt(d[k]))>> \o rest
             ELSE <<Line("string", k, <<d[k]>>)>> \o rest

\* json.dump(state, f, indent=2): the text of a document
JsonDump(doc) ==
    <<Line("open", "", <<>>)>> \o DumpMembers(doc, 1)
        \o <<Line("close", "", <<>>)>>

\* a file that holds no JSON
Garbage == <<Line("garbage", "", <<>>)>>

ParseError == [ok |-> FALSE, value |-> EmptyDict, next |-> 0]

\* the value of a scalar line
ScalarOf(l) ==
    IF l.kind = "number" THEN IntOf(l.text)
    ELSE IF l.key \in TokenKeys THEN Str(l.text[1])
    ELSE l.text[1]

\* the JSON parser on the members of an object whose opening line precedes
\* line i: the object, and the line after its closing line
RECURSIVE ParseMembers(_, _, _)
ParseMembers(lines, i, acc) ==
    IF i > Len(lines) THEN ParseError
    ELSE LET l == lines[i]
         IN  IF l.kind = "close"
             THEN [ok |-> TRUE, value |-> acc, next |-> i + 1]
             ELSE IF l.kind = "open"
             THEN LET inner == ParseMembers(lines, i + 1, EmptyDict)
                  IN  IF inner.ok
                      THEN ParseMembers(lines, inner.next,
                                        Put(acc, l.key, inner.value))
                      ELSE ParseError
             ELSE IF l.kind = "string"
                     \/ (l.kind = "number" /\ IntParses(l.text))
             THEN ParseMembers(lines, i + 1, Put(acc, l.key, ScalarOf(l)))
             ELSE ParseError

ParseDocument(lines) ==
    IF Len(lines) = 0 \/ lines[1].kind # "open" THEN ParseError
    ELSE LET r == ParseMembers(lines, 2, EmptyDict)
         IN  IF r.ok /\ r.next = Len(lines) + 1 THEN r ELSE ParseError

\* json.load(f) returns (it raises otherwise)
LoadParses(lines) == ParseDocument(lines).ok

JsonLoad(lines) == ParseDocument(lines).value

\* mutant: the file is never read
LoadFrom_IgnoresFile(d, opens) == DefaultState

\* load_state (lines 120-128) on a file d that open() can or cannot open
LoadFrom(d, opens) ==
    IF d.exists /\ opens /\ LoadParses(d.lines)
    THEN JsonLoad(d.lines)
    ELSE DefaultState

\* load_state
LoadStateCall ==
    /\ UNCHANGED nonStoreVars
    /\ \E opens \in BOOLEAN :
        /\ ls_ret' = <<LoadFrom(disk, opens)>>
        /\ ls_opened' = opens
    /\ st_pc' = "loaded"
    /\ UNCHANGED <<disk, saved>>

\* save_state: the document is written whole
SaveStateWrites ==
    /\ UNCHANGED nonStoreVars
    /\ \E doc \in StoreDocs :
        /\ disk' = [exists |-> TRUE, lines |-> JsonDump(doc)]
        /\ saved' = doc
    /\ st_pc' = "saved"
    /\ UNCHANGED <<ls_ret, ls_opened>>

\* save_state: open(STATE_FILE, 'w') raises, the exception is printed and the
\* file is as it was (lines 135-136)
SaveStateCannotOpen ==
    /\ UNCHANGED nonStoreVars
    /\ st_pc' = "saved"
    /\ UNCHANGED <<disk, saved, ls_ret, ls_opened>>

\* save_state: the file was truncated by open() and the write raises after
\* some lines; the exception is printed
SaveStateInterrupted ==
    /\ UNCHANGED nonStoreVars
    /\ \E doc \in StoreDocs :
        \E n \in 0..(Len(JsonDump(doc)) - 1) :
            disk' = [exists |-> TRUE, lines |-> SubSeq(JsonDump(doc), 1, n)]
    /\ saved' = None
    /\ st_pc' = "saved"
    /\ UNCHANGED <<ls_ret, ls_opened>>

InitStore ==
    /\ InitAuth
    /\ IdleHttp
    /\ IdleResolver
    /\ IdlePages
    /\ IdleCatalog
    /\ IdleAssemble
    /\ IdleBatch
    /\ dryrun = FALSE
    /\ IdleCollect
    /\ disk \in { [exists |-> FALSE, lines |-> <<>>],
                  [exists |-> TRUE, lines |-> Garbage] }
    /\ saved = None
    /\ ls_ret = <<>>
    /\ ls_opened = FALSE
    /\ st_pc = "idle"

NextStore ==
    \/ LoadStateCall
    \/ SaveStateWrites
    \/ SaveStateCannotOpen
    \/ SaveStateInterrupted

SpecStore == InitStore /\ [][NextStore]_vars

----------------------------------------------------------------------------
\* main's loop over the requested artists (lines 577-591)

\* what get_artist_tracks may return for an artist
TracksReturned ==
    LET t1 == [id |-> "t1", name |-> <<"A">>, album_release_date |-> Date2010]
        t2 == [id |-> "t2", name |-> <<"a">>, album_release_date |-> Date2010]
    IN  { <<>>, <<t1>>, <<t2, t1>> }

\* mutant: the loop is left at the first artist that is not resolved
AfterArtist_StopsOnFailure(i, n, artist) ==
    IF artist = None THEN n ELSE i + 1

\* the for loop of line 581 goes on with the next name whatever find_artist
\* returned for name i + 1 of n
AfterArtist(i, n, artist) == i + 1

\* line 582 returned None (no result, a failed search, or the operator
\* skipped); a saved choice that was tried was evicted
ArtistNotResolved ==
    /\ UNCHANGED nonCollectVars
    /\ cl_pc = "loop"
    /\ cl_i < Len(artist_list)
    /\ LET n == artist_list[cl_i + 1]
           st == LoadState(file)
       IN  file' = IF Cached(st, n) THEN Evicted(st, n) ELSE file
    /\ cl_found' = Append(cl_found, None)
    /\ cl_tracks' = Append(cl_tracks, <<>>)
    /\ cl_i' = AfterArtist(cl_i, Len(artist_list), None)
    /\ UNCHANGED <<artist_list, artist_names, main_tracks, cl_pc>>

\* lines 582-587: find_artist returned an artist (whose choice is in the
\* state file from then on) and get_artist_tracks returned its tracks
ArtistResolved ==
    /\ UNCHANGED nonCollectVars
    /\ cl_pc = "loop"
    /\ cl_i < Len(artist_list)
    /\ \E artist \in Catalogue, tracks \in TracksReturned :
        /\ file' = Remembered(LoadState(file), artist_list[cl_i + 1], artist)
        /\ cl_found' = Append(cl_found, artist)
        /\ cl_tracks' = Append(cl_tracks, tracks)
        /\ artist_names' = Append(artist_names, artist.name)
        /\ main_tracks' = main_tracks \o tracks
        /\ cl_i' = AfterArtist(cl_i, Len(artist_list), artist)
    /\ UNCHANGED <<artist_list, cl_pc>>

\* lines 589-591: nothing was collected, main returns
NothingCollected ==
    /\ UNCHANGED nonCollectVars
    /\ cl_pc = "loop"
    /\ cl_i >= Len(artist_list)
    /\ main_tracks = <<>>
    /\ cl_pc' = "ended"
    /\ UNCHANGED <<file, artist_list, cl_i, cl_found, cl_tracks, artist_names,
                   main_tracks>>

\* line 593 is reached with the collected tracks
TracksCollected ==
    /\ UNCHANGED nonCollectVars
    /\ cl_pc = "loop"
    /\ cl_i >= Len(artist_list)
    /\ main_tracks # <<>>
    /\ cl_pc' = "collected"
    /\ UNCHANGED <<file, artist_list, cl_i, cl_found, cl_tracks, artist_names,
                   main_tracks>>

\* after line 575: the list of names is not empty
InitCollect ==
    /\ InitAuth
    /\ IdleHttp
    /\ IdleResolver
    /\ IdlePages
    /\ IdleCatalog
    /\ IdleAssemble
    /\ IdleBatch
    /\ dryrun = FALSE
    /\ IdleStore
    /\ artist_list \in SeqsUpTo(ArtistNames, MaxArtists) \ {<<>>}
    /\ cl_i = 0
    /\ cl_found = <<>>
    /\ cl_tracks = <<>>
    /\ artist_names = <<>>
    /\ main_tracks = <<>>
    /\ cl_pc = "loop"

NextCollect ==
    \/ ArtistNotResolved
    \/ ArtistResolved
    \/ NothingCollected
    \/ TracksCollected

SpecCollect == InitCollect /\ [][NextCollect]_vars

----------------------------------------------------------------------------
\* Properties of make_spotify_request

\* the number of HTTP requests the call has issued
Requests == Len(hist)

\* the iterations that slept
Sleeps == {i \in 1..Len(hist) : hist[i].slept # NoSleep}

Is429(i) == hist[i].resp.kind = "response" /\ hist[i].resp.status = 429

IsNetErr(i) == hist[i].resp.kind = "neterr"

\* a 200 whose body is empty or a JSON document
IsOk200(i) ==
    /\ hist[i].resp.kind = "response"
    /\ hist[i].resp.status = 200
    /\ hist[i].resp.text \in {"", "{\"a\":1}", "{\"b\":2}"}

\* the seconds a 429's Retry-After header asks for, 1 when it is absent
ExpectedWait(i) ==
    IF "Retry-After" \notin DOMAIN hist[i].resp.headers THEN 1
    ELSE IF hist[i].resp.headers["Retry-After"] = <<"3">> THEN 3
    ELSE 10

\* the payload of a 200
ExpectedPayload(i) ==
    IF hist[i].resp.text = "" THEN EmptyDict
    ELSE IF hist[i].resp.text = "{\"a\":1}" THEN [a |-> 1]
    ELSE [b |-> 2]

\* C1: a 429 answered on the next attempt by a 200 makes the call return the
\* 200's payload; the only sleep between the two is the 429's Retry-After in
\* seconds (1 without the header), and when the 429 is the first response the
\* call has issued exactly two requests and slept exactly once.
C1_RateLimitThenSuccess ==
    \A i \in 1..(Len(hist) - 1) :
        (Is429(i) /\ IsOk200(i + 1)) =>
            /\ hpc = "returned"
            /\ result = ExpectedPayload(i + 1)
            /\ Len(hist) = i + 1
            /\ hist[i].slept = <<ExpectedWait(i)>>
            /\ hist[i + 1].slept = NoSleep
            /\ (i = 1 => Requests = 2 /\ Cardinality(Sleeps) = 1)

\* C1 witness: a first 429 carrying Retry-After: 3, then a 200 with a payload
C1_Witness ==
    /\ Len(hist) = 2
    /\ Is429(1) /\ "Retry-After" \in DOMAIN hist[1].resp.headers
    /\ IsOk200(2) /\ hist[2].resp.text # ""
    /\ hpc = "returned"

\* C2 (the claim as stated): the call never issues more than max_retries + 1
\* requests, and a call that met only 429 responses and network failures has
\* issued exactly max_retries + 1 requests and returned the failure signal.
C2_BoundedThenFailure ==
    /\ Requests <= max_retries + 1
    /\ (hpc # "loop" /\ Len(hist) >= 1
            /\ \A i \in 1..Len(hist) : Is429(i) \/ IsNetErr(i))
        => (hpc = "returned" /\ result = None /\ Requests = max_retries + 1)

\* C3: a status >= 400 other than 429 ends the call at once with the failure
\* signal: it is the last response, and no sleep follows it.
C3_ErrorStatusFailsAtOnce ==
    \A i \in 1..Len(hist) :
        (hist[i].resp.kind = "response" /\ hist[i].resp.status >= 400
                /\ hist[i].resp.status # 429) =>
            /\ i = Len(hist)
            /\ hist[i].slept = NoSleep
            /\ hpc = "returned"
            /\ result = None

\* C3 witness: a 400 received after a retry, with retries still left
C3_Witness ==
    /\ Len(hist) >= 2
    /\ hist[Len(hist)].resp.status = 400
    /\ retries < max_retries
    /\ hpc = "returned"

\* C4 (the claim as stated): the call never raises, and what it returns is
\* the failure signal or a parsed payload.
C4_NeverRaises ==
    /\ hpc # "raised"
    /\ hpc = "returned" => result \in {None, EmptyDict, [a |-> 1], [b |-> 2]}

----------------------------------------------------------------------------
\* Properties of get_user_auth_token and of main's create-mode path

\* get_user_auth_token has been entered by this process
Called == pc \notin {"idle", "main"}

\* get_user_auth_token has returned to main
HasReturned == pc \in {"returned", "have_user", "have_playlist", "done"}

TokenRequestEvents ==
    {"token_request:refresh_token", "token_request:authorization_code"}

InteractiveEvents == {"start_server", "open_browser", "prompt", "stop_server"}

ApiEvents == {"api:me", "api:create_playlist", "api:add_tracks"}

Logged(evs) == \E i \in 1..Len(log) : log[i].ev \in evs

\* the loaded document holds a token that expires more than 120 s from the
\* time of the call
LoadedTokenFresh ==
    /\ "access_token" \in DOMAIN loaded
    /\ "expires_at" \in DOMAIN loaded
    /\ loaded.expires_at > current_time + 120

\* C5: the call returns the cached access token, having sent no token
\* request, opened no browser, started no listener and written no state,
\* exactly when the document holds access_token and expires_at with
\* expires_at > now + 120; otherwise a token it returns was obtained from the
\* token endpoint.
C5_CachedTokenFirst ==
    Called =>
        /\ LoadedTokenFresh =>
            /\ HasReturned
            /\ ret = loaded.access_token
            /\ ~Logged(TokenRequestEvents \cup InteractiveEvents
                       \cup {"save_state", "token_reply"})
            /\ file = file_at_start
        /\ (~LoadedTokenFresh /\ HasReturned /\ ~Falsy(ret)) =>
            Logged(TokenRequestEvents)

\* C5 witness: a call answered from the cache
C5_Witness ==
    /\ pc = "returned"
    /\ LoadedTokenFresh
    /\ ret = loaded.access_token
    /\ log = <<>>

\* C5 witness of the boundary: exactly 120 s before the expiry the cached
\* token is not used
C5_WitnessBoundary ==
    /\ Called
    /\ "expires_at" \in DOMAIN loaded
    /\ loaded.expires_at = current_time + 120
    /\ Logged(TokenRequestEvents)

\* C6: with no fresh cached token and a refresh_token in the document, the
\* first thing the call does is the refresh request; when it succeeds the new
\* access token and expiry are saved and returned, no interactive step is
\* taken, and the stored refresh token changes only to the one the response
\* carries.
C6_RefreshFallback ==
    (Called /\ ~LoadedTokenFresh /\ "refresh_token" \in DOMAIN loaded) =>
        /\ Len(log) >= 1
        /\ log[1] = Event("token_request:refresh_token", loaded.refresh_token)
        /\ (Len(log) >= 2 /\ log[2].arg # None) =>
            LET td == log[2].arg
            IN  /\ HasReturned
                /\ ret = td.access_token
                /\ log[3].ev = "save_state"
                /\ ~Logged(InteractiveEvents)
                /\ ~Logged({"token_request:authorization_code"})
                /\ file.access_token = td.access_token
                /\ file.expires_at = current_time + td.expires_in
                /\ file.refresh_token =
                    IF "refresh_token" \in DOMAIN td
                    THEN td.refresh_token
                    ELSE loaded.refresh_token
                /\ file.artist_choices = loaded.artist_choices

\* C6 witness: a successful refresh whose response carries a new refresh token
C6_Witness ==
    /\ Called /\ ~LoadedTokenFresh /\ "refresh_token" \in DOMAIN loaded
    /\ Len(log) >= 3
    /\ log[2].arg # None
    /\ "refresh_token" \in DOMAIN log[2].arg
    /\ log[2].arg.refresh_token # loaded.refresh_token
    /\ pc = "returned"

\* the payload of a successful code exchange of this process, if any
ExchangeReplies ==
    {i \in 2..Len(log) :
        /\ log[i - 1].ev = "token_request:authorization_code"
        /\ log[i].ev = "token_reply"
        /\ log[i].arg # None}

\* C7: a successful code exchange saves access_token, refresh_token and
\* expires_at; and a call of the next process made more than 120 s before
\* that expiry returns the same access token without any token request or
\* interactive step.
C7_ExchangeThenCache ==
    /\ \A i \in ExchangeReplies :
        /\ file.access_token = log[i].arg.access_token
        /\ file.refresh_token = log[i].arg.refresh_token
        /\ file.expires_at = current_time + log[i].arg.expires_in
    /\ (Called /\ prev_run.grant = "authorization_code"
            /\ prev_run.expires_at > current_time + 120) =>
        /\ HasReturned
        /\ ret = prev_run.token
        /\ ~Logged(TokenRequestEvents \cup InteractiveEvents)

\* C7 witness: the process after a code exchange is answered from the cache
C7_Witness ==
    /\ pc = "returned"
    /\ prev_run.grant = "authorization_code"
    /\ current_time > 0
    /\ ret = prev_run.token
    /\ log = <<>>

\* get_user_auth_token gave main no token, or raised
AuthorizationFailed ==
    \/ HasReturned /\ Falsy(ret)
    \/ pc \in {"raised", "crashed"}

\* C8: when the user-authorization flow fails, main sends no user-profile,
\* playlist-creation or track-addition request, and the state file is as it
\* was.
C8_FailureHasNoSideEffects ==
    AuthorizationFailed =>
        /\ ~Logged(ApiEvents)
        /\ ~Logged({"save_state"})
        /\ file = file_at_start

\* C8 witness: the refresh is rejected, then the code exchange is rejected,
\* and main has ended
C8_Witness ==
    /\ pc = "done"
    /\ Falsy(ret)
    /\ Len(log) >= 4
    /\ log[1].ev = "token_request:refresh_token"
    /\ log[2] = Event("token_reply", None)
    /\ log[Len(log)] = Event("token_reply", None)
    /\ log[Len(log) - 1].ev = "token_request:authorization_code"

\* C9: never more than one listener is active, one is active only while the
\* call waits for the callback or is about to stop it, and none is once the
\* call has returned.
C9_ListenerTornDown ==
    /\ active_servers <= 1
    /\ pc \notin {"waiting", "stopping"} => active_servers = 0
    /\ HasReturned => active_servers = 0

\* C9 witness: the call has returned after a listener was started
C9_Witness ==
    /\ HasReturned
    /\ Logged({"start_server"})
    /\ callbacks > 0

\* the call is past the wait and the teardown of lines 457-462
PastTeardown ==
    /\ Logged({"open_browser"})
    /\ IsLoopback(callback_host)
    /\ pc \notin {"waiting", "stopping"}

\* C10 (the claim as stated): the wait lasts at most 300 s, and when no
\* request carrying a code had arrived as the wait ended, the listener is
\* torn down and the call fails without a code-exchange request.
C10_TimeoutFailsWithoutExchange ==
    /\ pc = "waiting" => now <= wait_start + 300
    /\ (PastTeardown /\ ~received_at_wait_end) =>
        /\ active_servers = 0
        /\ ~Logged({"token_request:authorization_code"})
        /\ HasReturned /\ Falsy(ret)

----------------------------------------------------------------------------
\* Properties of find_artist

\* the call in progress is for a name that the last search for it resolved
FollowsResolution ==
    /\ fa_pc # "idle"
    /\ artist_name \in DOMAIN resolved_at_call

\* the call looked the saved artist up and was answered
LookupAnswered ==
    /\ fa_pc # "idle"
    /\ Len(fa_log) >= 2
    /\ fa_log[1].ev = "request:artists"

LookupSucceeded == LookupAnswered /\ ~Falsy(fa_log[2].arg)

LookupFailed == LookupAnswered /\ Falsy(fa_log[2].arg)

\* C11: when the last search for a name resolved it to an ID, the next call
\* for that name first looks that ID up, and when the lookup returns an artist
\* the call makes no other request, sends no search, returns that artist and
\* leaves the state file as it was.
C11_CachedChoiceIsReused ==
    FollowsResolution =>
        /\ fa_log[1].ev = "request:artists"
        /\ fa_log[1].arg = resolved_at_call[artist_name]
        /\ LookupSucceeded =>
            /\ fa_pc = "returned"
            /\ Len(fa_log) = 2
            /\ fa_ret = fa_log[2].arg
            /\ fa_ret.id = resolved_at_call[artist_name]
            /\ file = fa_file_at_call

\* C11 witness: a call for a resolved name has returned the looked-up artist
C11_Witness ==
    /\ FollowsResolution
    /\ LookupSucceeded
    /\ fa_pc = "returned"
    /\ fa_ret.id = resolved_at_call[artist_name]

\* the saved choices of a state document but the one of the name being resolved
OtherChoices(doc) ==
    LET choices == LoadState(doc).artist_choices
    IN  [n \in DOMAIN choices \ {artist_name} |-> choices[n]]

\* the call has returned an artist
ReturnedArtist == fa_pc = "returned" /\ ~Falsy(fa_ret)

\* C12: when the lookup of a saved ID returns no artist, the state is saved
\* without that name's entry and then the search is sent; the entry stays away
\* unless this call's search returns an artist; every other saved name is kept.
C12_InvalidChoiceIsEvicted ==
    LookupFailed =>
        /\ Len(fa_log) >= 4
        /\ fa_log[3].ev = "save_state"
        /\ artist_name \notin DOMAIN fa_log[3].arg.artist_choices
        /\ OtherChoices(fa_log[3].arg) = OtherChoices(fa_file_at_call)
        /\ fa_log[4].ev = "request:search"
        /\ fa_log[4].arg.q = artist_name
        /\ OtherChoices(file) = OtherChoices(fa_file_at_call)
        /\ ~ReturnedArtist => artist_name \notin DOMAIN file.artist_choices

\* C12 witness: the entry was evicted, the search returned no artist, and
\* another name is still saved
C12_Witness ==
    /\ LookupFailed
    /\ fa_pc = "returned"
    /\ fa_ret = None
    /\ artist_name \in DOMAIN fa_file_at_call.artist_choices
    /\ artist_name \notin DOMAIN file.artist_choices
    /\ DOMAIN file.artist_choices # {}

\* the search of the call in progress has been answered
Searched ==
    /\ fa_pc # "idle"
    /\ \E i \in 1..Len(fa_log) : fa_log[i].ev = "reply:search"

SearchReplyAt == CHOOSE i \in 1..Len(fa_log) : fa_log[i].ev = "reply:search"

IsInput(e) == e.ev = "input"

\* the lines entered at the prompt, in order
Entered == SelectSeq(fa_log, IsInput)

\* a line that names one of n listed artists
ValidNumber(line, n) ==
    /\ IntParses(line)
    /\ 1 <= IntOf(line)
    /\ IntOf(line) <= n

SkipLine(line) == line \in { <<"q">>, <<"Q">> }

\* the state document when the search was sent
FileBeforeSearch == IF LookupFailed THEN fa_log[3].arg ELSE fa_file_at_call

\* C13: a search without results returns no artist; a single result is
\* returned without a prompt; several results prompt until a listed number or
\* a skip is entered. The name's {id, name} entry is saved exactly when the
\* search returns an artist, and it is that artist's.
C13_SearchOutcomes ==
    Searched =>
        LET found == ItemsOf(fa_log[SearchReplyAt].arg)
            n == Len(found)
            ins == Entered
            saves == { i \in SearchReplyAt..Len(fa_log) :
                        fa_log[i].ev = "save_state" }
        IN  /\ n = 0 =>
                /\ fa_pc = "returned"
                /\ fa_ret = None
                /\ ins = <<>>
            /\ n = 1 =>
                /\ fa_pc = "returned"
                /\ fa_ret = found[1]
                /\ ins = <<>>
            /\ n > 1 =>
                /\ \A i \in 1..(Len(ins) - 1) :
                    ~ValidNumber(ins[i].arg, n) /\ ~SkipLine(ins[i].arg)
                /\ IF fa_pc = "returned"
                   THEN /\ Len(ins) >= 1
                        /\ LET last == ins[Len(ins)].arg
                           IN  \/ SkipLine(last) /\ fa_ret = None
                               \/ /\ ~SkipLine(last)
                                  /\ ValidNumber(last, n)
                                  /\ fa_ret = found[IntOf(last)]
                   ELSE /\ fa_pc = "choose"
                        /\ \A i \in 1..Len(ins) :
                            ~ValidNumber(ins[i].arg, n) /\ ~SkipLine(ins[i].arg)
            /\ IF ReturnedArtist
               THEN /\ saves = {Len(fa_log)}
                    /\ file = fa_log[Len(fa_log)].arg
                    /\ file.artist_choices[artist_name] =
                        [id |-> fa_ret.id, name |-> fa_ret.name]
                    /\ OtherChoices(file) = OtherChoices(FileBeforeSearch)
               ELSE /\ saves = {}
                    /\ file = FileBeforeSearch

\* C13 witness: of several results the second was chosen after a line that
\* was no listed number, and its entry is saved
C13_Witness ==
    /\ Searched
    /\ ReturnedArtist
    /\ Len(ItemsOf(fa_log[SearchReplyAt].arg)) > 1
    /\ Len(Entered) = 2
    /\ Entered[2].arg = <<"2">>
    /\ file.artist_choices[artist_name].id = fa_ret.id

\* a skip at the prompt: no artist and no entry
C13_WitnessSkip ==
    /\ Searched
    /\ fa_pc = "returned"
    /\ fa_ret = None
    /\ Len(Entered) >= 1
    /\ SkipLine(Entered[Len(Entered)].arg)

----------------------------------------------------------------------------
\* Properties of get_artist_tracks

\* the first-listed artist of an album or a track is id
FirstListedIs(x, id) == Len(x.artists) >= 1 /\ x.artists[1].id = id

\* track t was returned for the k-th fetched album and carries its date
FromAlbum(t, k) ==
    LET fetched == album_tracks[k]
    IN  /\ FirstListedIs(fetched.album, artist_id)
        /\ \E a \in 1..Len(albums) : albums[a] = fetched.album
        /\ "album_release_date" \in DOMAIN t
        /\ t.album_release_date = fetched.album.release_date
        /\ \E j \in 1..Len(fetched.tracks) :
            /\ fetched.tracks[j].id = t.id
            /\ fetched.tracks[j].artists = t.artists

\* C14: every track get_artist_tracks collects lists the artist first, comes
\* from a listed album that lists the artist first, and carries that album's
\* release date; once it has returned, the tracks of every listed album that
\* lists the artist first were fetched, and each of them that lists the artist
\* first is returned with the album's date.
C14_PrimaryCreditOnly ==
    /\ \A i \in 1..Len(all_tracks) :
        /\ FirstListedIs(all_tracks[i], artist_id)
        /\ \E k \in 1..Len(album_tracks) : FromAlbum(all_tracks[i], k)
    /\ gt_pc = "returned" =>
        /\ \A a \in 1..Len(albums) :
            FirstListedIs(albums[a], artist_id) =>
                \E k \in 1..Len(album_tracks) : album_tracks[k].album = albums[a]
        /\ \A k \in 1..Len(album_tracks) :
            \A j \in 1..Len(album_tracks[k].tracks) :
                LET t == album_tracks[k].tracks[j]
                IN  FirstListedIs(t, artist_id) =>
                        \E i \in 1..Len(all_tracks) :
                            /\ all_tracks[i].id = t.id
                            /\ all_tracks[i].artists = t.artists
                            /\ all_tracks[i].album_release_date =
                                album_tracks[k].album.release_date

\* C14 witness: two of the artist's albums with different dates were fetched,
\* one returned a track the artist is only featured on, and the call returned
\* one track of each album
C14_Witness ==
    /\ gt_pc = "returned"
    /\ Len(album_tracks) = 2
    /\ album_tracks[1].album.release_date # album_tracks[2].album.release_date
    /\ \E j \in 1..Len(album_tracks[1].tracks) :
        /\ album_tracks[1].tracks[j].artists # <<>>
        /\ ~FirstListedIs(album_tracks[1].tracks[j], artist_id)
    /\ Len(all_tracks) = 2
    /\ all_tracks[1].album_release_date # all_tracks[2].album_release_date

\* an album the artist is only featured on was listed and not fetched
C14_WitnessFeaturedAlbum ==
    /\ gt_pc = "returned"
    /\ Len(albums) = 2
    /\ Len(album_tracks) = 1
    /\ \E a \in 1..Len(albums) :
        albums[a].artists # <<>> /\ ~FirstListedIs(albums[a], artist_id)
    /\ Len(all_tracks) = 1

----------------------------------------------------------------------------
\* Properties of get_artist_albums and get_album_tracks

\* the items a reply carries
ItemsOfPage(page) ==
    IF page = None \/ "items" \notin DOMAIN page THEN <<>> ELSE page.items

\* the reply names a further page
HasNextPage(page) ==
    /\ page # None
    /\ "next" \in DOMAIN page
    /\ page.next # None

RECURSIVE ConcatPages(_)
ConcatPages(pages) ==
    IF pages = <<>> THEN <<>>
    ELSE ItemsOfPage(Head(pages)) \o ConcatPages(Tail(pages))

\* the walk goes on after this reply
GoesOn(page) == Len(ItemsOfPage(page)) = 50 /\ HasNextPage(page)

\* C15: the k-th request asks for 50 items at offset 50 * (k - 1); the result
\* is the pages' items concatenated in request order; every page but the last
\* requested holds 50 items and names a next page; the walk has returned
\* exactly when the last page requested does not.
C15_PaginationWalk ==
    /\ Len(pg_pages) = Len(pg_requests)
    /\ \A k \in 1..Len(pg_requests) :
        /\ pg_requests[k].params.limit = 50
        /\ pg_requests[k].params.offset = 50 * (k - 1)
        /\ pg_requests[k].endpoint = pg_requests[1].endpoint
    /\ pg_items = ConcatPages(pg_pages)
    /\ \A k \in 1..(Len(pg_pages) - 1) : GoesOn(pg_pages[k])
    /\ Len(pg_pages) > 0 =>
        (pg_pc = "returned" <=> ~GoesOn(pg_pages[Len(pg_pages)]))

\* C15 witness: two full pages and a short one were fetched
C15_Witness ==
    /\ pg_pc = "returned"
    /\ Len(pg_requests) = 3
    /\ pg_requests[3].params.offset = 100
    /\ Len(pg_items) = 101

\* a full page that names no next page ends the walk
C15_WitnessNoNext ==
    /\ pg_pc = "returned"
    /\ Len(pg_requests) = 2
    /\ Len(pg_items) = 100

----------------------------------------------------------------------------
\* Properties of main's de-duplication and of sort_tracks

\* where an ID is first seen in the merged list
FirstSeen(id) ==
    CHOOSE p \in 1..Len(merged_tracks) :
        /\ merged_tracks[p].id = id
        /\ \A q \in 1..(p - 1) : merged_tracks[q].id # id

\* C16: after the de-duplication no two kept tracks share an ID, every ID of
\* the merged list is kept, each kept track is the first one of the merged
\* list with its ID, and the kept tracks are in first-seen order.
C16_DedupFirstSeen ==
    as_pc \in {"unique", "sorted"} =>
        /\ \A i, j \in 1..Len(unique_tracks) :
            unique_tracks[i].id = unique_tracks[j].id => i = j
        /\ { unique_tracks[i].id : i \in 1..Len(unique_tracks) }
            = { merged_tracks[p].id : p \in 1..Len(merged_tracks) }
        /\ \A i \in 1..Len(unique_tracks) :
            unique_tracks[i] = merged_tracks[FirstSeen(unique_tracks[i].id)]
        /\ \A i, j \in 1..Len(unique_tracks) :
            i < j => FirstSeen(unique_tracks[i].id) < FirstSeen(unique_tracks[j].id)

\* C16 witness: an ID was merged twice with another one in between, from two
\* albums
C16_Witness ==
    /\ as_pc = "unique"
    /\ Len(merged_tracks) = 3
    /\ merged_tracks[1].id = merged_tracks[3].id
    /\ merged_tracks[1] # merged_tracks[3]
    /\ merged_tracks[2].id # merged_tracks[1].id
    /\ Len(unique_tracks) = 2

\* the key the claim names for a sort by date or by name
ClaimedKey(x) ==
    IF sort_method = "date" THEN StrKey(x.album_release_date)
    ELSE StrKey(x.name)

\* where a track stands in the list given to sort_tracks
InputPosition(x) ==
    CHOOSE p \in 1..Len(unique_tracks) : unique_tracks[p] = x

\* C17: sort_tracks by date or by name returns the given tracks ordered by
\* that key, non-decreasing for 'asc' and non-increasing for 'desc', and in
\* both directions tracks of equal key keep their order.
C17_SortOrderedAndStable ==
    (as_pc = "sorted" /\ sort_method \in {"date", "name"}) =>
        /\ Len(sorted_tracks) = Len(unique_tracks)
        /\ \A i \in 1..Len(sorted_tracks) :
            \E p \in 1..Len(unique_tracks) : unique_tracks[p] = sorted_tracks[i]
        /\ \A i, j \in 1..Len(sorted_tracks) :
            i < j =>
                LET ki == ClaimedKey(sorted_tracks[i])
                    kj == ClaimedKey(sorted_tracks[j])
                IN  /\ sort_order = "asc" => ~LexLess(kj, ki)
                    /\ sort_order = "desc" => ~LexLess(ki, kj)
                    /\ ki = kj =>
                        InputPosition(sorted_tracks[i])
                            < InputPosition(sorted_tracks[j])

\* C17 witness: a descending sort by date of three tracks, two of them of one
\* date, that moved the third in front of them
C17_Witness ==
    /\ as_pc = "sorted"
    /\ sort_method = "date"
    /\ sort_order = "desc"
    /\ Len(sorted_tracks) = 3
    /\ sorted_tracks[1] = unique_tracks[3]
    /\ sorted_tracks[2] = unique_tracks[1]
    /\ sorted_tracks[2].album_release_date = sorted_tracks[3].album_release_date

\* an ascending sort by name that puts "B" before "a"
C17_WitnessName ==
    /\ as_pc = "sorted"
    /\ sort_method = "name"
    /\ sort_order = "asc"
    /\ Len(sorted_tracks) = 2
    /\ sorted_tracks[1].name = <<"B">>
    /\ sorted_tracks[2].name = <<"a">>
    /\ sorted_tracks[1] = unique_tracks[2]

----------------------------------------------------------------------------
\* Properties of main's dry-run mode

\* the token fields of a state document
TokenFields(doc) ==
    LET d == LoadState(doc)
    IN  [k \in DOMAIN d \cap {"access_token", "refresh_token", "expires_at"}
            |-> d[k]]

\* C18: a process started with --dryrun never enters get_user_auth_token,
\* starts no listener, opens no browser, sends no token, user-profile,
\* playlist-creation or track-addition request, and leaves the token fields
\* of the state file as they were.
C18_DryRunIsReadOnly ==
    (dryrun /\ pc # "idle") =>
        /\ pc \in {"collecting", "sorted", "done", "raised", "crashed"}
        /\ ~Logged(TokenRequestEvents)
        /\ ~Logged(InteractiveEvents)
        /\ ~Logged(ApiEvents)
        /\ ~Logged({"save_state"})
        /\ active_servers = 0
        /\ ret = None
        /\ TokenFields(file) = TokenFields(file_at_start)

\* C18 witness: a dry run has printed its tracks with the tokens of an
\* earlier process stored, and it wrote the saved artist choices
C18_Witness ==
    /\ dryrun
    /\ pc = "done"
    /\ "access_token" \in DOMAIN TokenFields(file)
    /\ file # file_at_start

----------------------------------------------------------------------------
\* Properties of add_tracks_to_playlist

RECURSIVE SentUris(_)
\* the URIs of the requests, concatenated in request order
SentUris(requests) ==
    IF requests = <<>> THEN <<>>
    ELSE Head(requests).data.uris \o SentUris(Tail(requests))

\* the request was answered without an error (make_spotify_request returned
\* the body, or {} for an empty one)
Succeeded(k) == ab_results[k] # None

\* the batches a list of n URIs is split into
BatchesOf(n) == (n + 99) \div 100

\* every batch of the list was sent and answered without an error
AllBatchesSucceeded ==
    /\ ab_pc = "returned"
    /\ Len(ab_requests) = BatchesOf(Len(track_uris))
    /\ \A k \in 1..Len(ab_requests) : Succeeded(k)

\* C19: every request carries between 1 and 100 URIs, every request but the
\* last exactly 100; the requests carry the URIs of the list in order, none
\* left out or repeated, and all of the list once every batch has succeeded.
C19_BatchesOfAtMost100 ==
    /\ \A k \in 1..Len(ab_requests) :
        /\ Len(ab_requests[k].data.uris) >= 1
        /\ Len(ab_requests[k].data.uris) <= 100
        /\ k < Len(ab_requests) => Len(ab_requests[k].data.uris) = 100
    /\ LET sent == SentUris(ab_requests)
       IN  /\ Len(sent) <= Len(track_uris)
           /\ sent = SubSeq(track_uris, 1, Len(sent))
           /\ AllBatchesSucceeded => sent = track_uris

\* C19 witness: 201 URIs went out as 100, 100 and 1
C19_Witness ==
    /\ AllBatchesSucceeded
    /\ Len(track_uris) = 201
    /\ Len(ab_requests) = 3
    /\ Len(ab_requests[3].data.uris) = 1
    /\ ab_requests[3].data.uris[1] = track_uris[201]

\* C20 (the claim as stated): no request follows a failed one, every request
\* is a POST of URIs to the playlist (none deletes it or takes tracks back),
\* and the call returns True exactly when every batch request was answered
\* without an error.
C20_SuccessIffEveryBatchSucceeded ==
    /\ \A k \in 1..(Len(ab_requests) - 1) : Succeeded(k)
    /\ \A k \in 1..Len(ab_requests) :
        /\ ab_requests[k].method = "POST"
        /\ ab_requests[k].endpoint = <<"playlists", "p1", "tracks">>
    /\ ab_pc = "returned" =>
        (ab_ret <=> \A k \in 1..Len(ab_requests) : Succeeded(k))

----------------------------------------------------------------------------
\* C21: load_state returns {"artist_choices": {}} when the state file is
\* missing, cannot be opened or does not parse, and otherwise returns the
\* document that the last save_state wrote.
C21_LoadAfterSave ==
    st_pc = "loaded" =>
        IF disk.exists /\ ls_opened /\ LoadParses(disk.lines)
        THEN saved # None /\ ls_ret = <<saved>>
        ELSE ls_ret = <<DefaultState>>

\* a document with a saved choice and tokens was saved and loaded back
C21_Witness ==
    /\ st_pc = "loaded"
    /\ disk.exists /\ ls_opened /\ LoadParses(disk.lines)
    /\ saved # None
    /\ "access_token" \in DOMAIN saved
    /\ "V" \in DOMAIN saved.artist_choices
    /\ ls_ret = <<saved>>

\* the file is missing and the default is returned
C21_WitnessMissing ==
    /\ st_pc = "loaded"
    /\ ~disk.exists
    /\ ls_ret = <<DefaultState>>

\* an interrupted save left a file that does not parse
C21_WitnessUnparsable ==
    /\ st_pc = "loaded"
    /\ disk.exists /\ ls_opened
    /\ Len(disk.lines) > 1
    /\ ~LoadParses(disk.lines)
    /\ ls_ret = <<DefaultState>>

----------------------------------------------------------------------------
\* the names of the artists found, and the tracks returned for them, in the
\* order of the list
RECURSIVE NamesOf(_)
NamesOf(found) ==
    IF found = <<>> THEN <<>>
    ELSE LET rest == NamesOf(Tail(found))
         IN  IF Head(found) = None THEN rest ELSE <<Head(found).name>> \o rest

RECURSIVE Flattened(_)
Flattened(lists) ==
    IF lists = <<>> THEN <<>> ELSE Head(lists) \o Flattened(Tail(lists))

\* C22: when find_artist returns None for a requested artist, main skips only
\* that artist: every name of the list is handled in the order given, the
\* tracks of every resolved artist are collected in that order, and the run
\* goes on with them.
C22_SkipsOnlyFailedArtist ==
    /\ cl_i = Len(cl_found)
    /\ cl_i = Len(cl_tracks)
    /\ cl_i <= Len(artist_list)
    /\ cl_pc # "loop" => cl_i = Len(artist_list)
    /\ artist_names = NamesOf(cl_found)
    /\ main_tracks = Flattened(cl_tracks)
    /\ \A i \in 1..Len(cl_found) : cl_found[i] = None => cl_tracks[i] = <<>>
    /\ cl_pc = "collected" => main_tracks # <<>>
    /\ cl_pc = "ended" => main_tracks = <<>>

\* three names, the second not resolved, the others resolved with tracks
C22_Witness ==
    /\ cl_pc = "collected"
    /\ Len(artist_list) = 3
    /\ cl_found[1] # None /\ cl_tracks[1] # <<>>
    /\ cl_found[2] = None
    /\ cl_found[3] # None /\ cl_tracks[3] # <<>>
    /\ main_tracks = cl_tracks[1] \o cl_tracks[3]

----------------------------------------------------------------------------
\* C23: once a callback request carrying a code has set AUTH_CODE_RECEIVED,
\* no later request handled by the listener before get_user_auth_token reads
\* AUTH_CODE replaces the code: while the call waits or stops the listener
\* with the event set, AUTH_CODE keeps its value.
C23_SignalledCodeIsKept ==
    [][(AUTH_CODE_RECEIVED /\ pc \in {"waiting", "stopping"})
        => AUTH_CODE' = AUTH_CODE]_vars

----------------------------------------------------------------------------
ReplyEvents == {"reply:me", "reply:create_playlist"}

\* C24: in create mode the playlist-creation request is issued only after a
\* user token was obtained and the profile request returned the user, a
\* track-addition request only after the playlist-creation request returned
\* the playlist, and after a failed profile or playlist-creation request the
\* process issues no further request.
C24_CreateModeOrdering ==
    \A i \in 1..Len(log) :
        /\ log[i].ev \in ApiEvents => (~Falsy(log[i].arg) /\ log[i].arg = ret)
        /\ log[i].ev = "api:create_playlist" =>
            /\ i > 2
            /\ log[i - 2].ev = "api:me"
            /\ log[i - 1].ev = "reply:me"
            /\ ~Falsy(log[i - 1].arg)
        /\ log[i].ev = "api:add_tracks" =>
            /\ i > 4
            /\ log[i - 2].ev = "api:create_playlist"
            /\ log[i - 1].ev = "reply:create_playlist"
            /\ ~Falsy(log[i - 1].arg)
        /\ (log[i].ev \in ReplyEvents /\ Falsy(log[i].arg)) =>
            (i = Len(log) /\ pc = "done")

\* the whole sequence was issued
C24_Witness ==
    /\ pc = "done"
    /\ Len(log) > 4
    /\ log[Len(log)].ev = "api:add_tracks"
    /\ log[Len(log) - 1] = Event("reply:create_playlist", [id |-> "x1"])

\* the playlist creation failed and nothing was added
C24_WitnessCreateFailed ==
    /\ pc = "done"
    /\ Len(log) > 3
    /\ log[Len(log)] = Event("reply:create_playlist", None)
    /\ log[Len(log) - 2] = Event("reply:me", [id |-> "x1"])

----------------------------------------------------------------------------
\* the saved artist choices of a state document
ChoicesOf(doc) == Get(LoadState(doc), "artist_choices", EmptyDict)

\* C25: a cache write or eviction by find_artist leaves access_token,
\* refresh_token and expires_at of the state document unchanged, and a token
\* write by get_user_auth_token leaves every artist_choices entry unchanged.
C25_WritersKeepEachOthersFields ==
    [][IF pc = "collecting"
       THEN TokenFields(file') = TokenFields(file)
       ELSE ChoicesOf(file') = ChoicesOf(file)]_vars

\* tokens were refreshed after a choice was saved next to an older one
C25_Witness ==
    /\ pc = "returned"
    /\ file # file_at_start
    /\ DOMAIN ChoicesOf(file) = {"BTS", "V"}
    /\ "access_token" \in DOMAIN TokenFields(file_at_start)
    /\ TokenFields(file) # TokenFields(file_at_start)

\* a choice was evicted from a document that holds tokens
C25_WitnessEviction ==
    /\ pc = "sorted"
    /\ "V" \in DOMAIN ChoicesOf(file_at_start)
    /\ "V" \notin DOMAIN ChoicesOf(file)
    /\ "access_token" \in DOMAIN TokenFields(file)

----------------------------------------------------------------------------
\* C26: in make_spotify_request every sleep is followed by another HTTP
\* attempt: when the call has ended, its last iteration did not sleep.
C26_SleepIsFollowedByAttempt ==
    (hpc # "loop" /\ hist # <<>>) => hist[Len(hist)].slept = NoSleep

----------------------------------------------------------------------------
\* how many tracks of a list carry an ID
Occurrences(tracks, id) ==
    Cardinality({ i \in 1..Len(tracks) : tracks[i].id = id })

TrackIds == { t.id : t \in MergedPool }

\* C27: sort_tracks neither loses nor duplicates tracks: the list it returns
\* holds every track ID as many times as the list it was given.
C27_SortKeepsEveryTrack ==
    as_pc = "sorted" =>
        \A id \in TrackIds :
            Occurrences(sorted_tracks, id) = Occurrences(unique_tracks, id)

----------------------------------------------------------------------------
\* C28: in create mode a playlist-creation request is issued only when the
\* sorted list, whose tracks will be added to the playlist, holds at least
\* one track.
C28_NoEmptyPlaylist ==
    as_pc = "creating" => Len(sorted_tracks) >= 1

====
